---------------------------- MODULE Spec2Model ----------------------------
(***************************************************************************)
(* A model of maus_dash's control plane: the EventBus                      *)
(* (backend/core/event_bus.py) and the ModuleLoader                        *)
(* (backend/core/module_loader.py).                                        *)
(*                                                                         *)
(* Strings that the code inspects character by character (event types and  *)
(* patterns) are sequences of one-character strings.  Tasks are asyncio    *)
(* tasks of one event loop: a task runs until it awaits something that     *)
(* can suspend it.                                                         *)
(***************************************************************************)
EXTENDS Integers, Sequences, FiniteSets, TLC

VARIABLES
    \* ---- pattern matching probe (SpecMatch)
    probe,
    \* ---- EventBus (SpecBus)
    local_handlers,   \* EventBus.local_handlers: the dict, in insertion order
    next_id,          \* number of EventHandler objects constructed so far
    frames,           \* per publishing task: its stack of _handle_event calls
    calls,            \* per handler_id: how often the callback was invoked
    emits,            \* number of emit() calls made so far
    requests,         \* per publishing task: its request_response call
    relay,            \* EventBus: redis, is_running, pubsub, subscriber_task
    \* ---- ModuleLoader (Spec, SpecReload, SpecLoadTwice)
    modules,          \* ModuleLoader.modules: names, in insertion order
    insts,            \* every BaseModule object constructed so far
    module_info,      \* ModuleLoader.module_info
    loading_lock,     \* ModuleLoader._loading_lock (an asyncio.Lock)
    tasks,            \* per calling task: its position and locals
    cur,              \* the task that is running without having suspended, or 0
    mtime,            \* per name: st_mtime of its module.py
    ncalls            \* load/unload/reload calls made so far

\* what an action of one component leaves alone in the others
BusOnly    == UNCHANGED <<probe, modules, insts, module_info, loading_lock,
                          tasks, cur, mtime, ncalls>>
LoaderOnly == UNCHANGED <<probe, local_handlers, next_id, frames, calls, emits,
                          requests, relay>>
vars       == <<probe, local_handlers, next_id, frames, calls, emits, requests, relay,
                modules, insts, module_info, loading_lock, tasks, cur, mtime, ncalls>>

-----------------------------------------------------------------------------
(* Helpers on sequences *)

Front(s) == SubSeq(s, 1, Len(s) - 1)
Last(s)  == s[Len(s)]
Range(s) == {s[i] : i \in 1..Len(s)}

RECURSIVE SeqsUpTo(_, _)
SeqsUpTo(S, n) ==
    IF n = 0 THEN {<<>>}
    ELSE LET shorter == SeqsUpTo(S, n - 1)
         IN  shorter \cup {Append(s, c) : s \in shorter, c \in S}

-----------------------------------------------------------------------------
(* EventBus._match_pattern *)

\* bounds of the probe
MaxPatternLen == 3
MaxEventLen   == 4

PatternChars == {"a", "b", ".", "*", "?"}
EventChars   == {"a", "b", "."}

\* str.replace(c, r) for a one-character c
RECURSIVE Replace(_, _, _)
Replace(s, c, r) ==
    IF s = <<>> THEN <<>>
    ELSE (IF Head(s) = c THEN r ELSE <<Head(s)>>) \o Replace(Tail(s), c, r)

\* One atom of the regular expression against one character: "." is any
\* character, everything else that the translation can leave is itself.
AtomMatches(a, c) == a = "." \/ a = c

\* re.match('^' + re + '$', s) for the expressions the translation produces:
\* atoms, each optionally followed by "*".
RECURSIVE ReFullMatch(_, _)
ReFullMatch(re, s) ==
    IF re = <<>> THEN s = <<>>
    ELSE IF Len(re) >= 2 /\ re[2] = "*"
         THEN \/ ReFullMatch(SubSeq(re, 3, Len(re)), s)
              \/ /\ s # <<>>
                 /\ AtomMatches(re[1], Head(s))
                 /\ ReFullMatch(re, Tail(s))
         ELSE /\ s # <<>>
              /\ AtomMatches(re[1], Head(s))
              /\ ReFullMatch(Tail(re), Tail(s))

\* pattern.replace('*', '.*').replace('?', '.')
regex_pattern(pattern) == Replace(Replace(pattern, "*", <<".", "*">>), "?", <<".">>)

match_pattern(event_type, pattern) ==
    IF pattern = event_type THEN TRUE
    ELSE IF "*" \in Range(pattern)
         THEN ReFullMatch(regex_pattern(pattern), event_type)
         ELSE FALSE

\* Anchored glob matching, the reference the specification states:
\* "*" any run of characters, "?" exactly one, anything else itself.
RECURSIVE GlobMatch(_, _)
GlobMatch(p, s) ==
    IF p = <<>> THEN s = <<>>
    ELSE IF Head(p) = "*"
         THEN \/ GlobMatch(Tail(p), s)
              \/ (s # <<>> /\ GlobMatch(p, Tail(s)))
         ELSE /\ s # <<>>
              /\ (Head(p) = "?" \/ Head(p) = Head(s))
              /\ GlobMatch(Tail(p), Tail(s))

-----------------------------------------------------------------------------
(* EventBus: on, emit, _handle_event *)

\* bounds of the bus model
MaxHandlers == 3
MaxEmits    == 2

BusTasks    == {1}
BusPatterns == {<<"a", ".", "*">>, <<"a", ".", "b">>}
BusEvents   == {<<"a", ".", "b">>, <<"a", "b">>}
Priorities  == {0, 1}

\* EventHandler
EventHandler(id, pattern, once, priority) ==
    [handler_id |-> id, pattern |-> pattern, once |-> once, priority |-> priority]

\* list.sort(key=lambda h: h.priority, reverse=True): stable, so handlers of
\* equal priority keep the order they have in the list.
InsertByPriority(sorted, h) ==
    LET n == Cardinality({i \in 1..Len(sorted) : sorted[i].priority >= h.priority})
        \* the elements of priority >= h.priority form a prefix of a sorted list
    IN  SubSeq(sorted, 1, n) \o <<h>> \o SubSeq(sorted, n + 1, Len(sorted))

RECURSIVE SortByPriority(_)
SortByPriority(s) ==
    IF s = <<>> THEN <<>>
    ELSE InsertByPriority(SortByPriority(Front(s)), Last(s))

BucketIndex(lh, pattern) ==
    IF \E i \in 1..Len(lh) : lh[i].pattern = pattern
    THEN CHOOSE i \in 1..Len(lh) : lh[i].pattern = pattern
    ELSE 0

\* The body of the decorator returned by on()
on(lh, handler) ==
    LET i == BucketIndex(lh, handler.pattern)
    IN  IF i = 0
        THEN Append(lh, [pattern |-> handler.pattern, handlers |-> <<handler>>])
        ELSE [lh EXCEPT ![i].handlers = SortByPriority(Append(@, handler))]

\* _handle_event, "Find matching handlers": the buckets in dict order, each
\* bucket's handlers in list order.
RECURSIVE MatchingHandlers(_, _)
MatchingHandlers(lh, event_type) ==
    IF lh = <<>> THEN <<>>
    ELSE (IF match_pattern(event_type, Head(lh).pattern)
          THEN Head(lh).handlers ELSE <<>>)
         \o MatchingHandlers(Tail(lh), event_type)

handlers_to_call(lh, event_type) == SortByPriority(MatchingHandlers(lh, event_type))

IsOnce(h) == h.once
handlers_to_remove(lh, event_type) == SelectSeq(MatchingHandlers(lh, event_type), IsOnce)

\* _handle_event, "Remove 'once' handlers"
RECURSIVE RemoveOnce(_, _)
RemoveOnce(lh, to_remove) ==
    IF to_remove = <<>> THEN lh
    ELSE LET h == Head(to_remove)
             i == BucketIndex(lh, h.pattern)
             keep(x) == x.handler_id # h.handler_id
         IN  RemoveOnce(IF i = 0 THEN lh
                        ELSE [lh EXCEPT ![i].handlers = SelectSeq(@, keep)],
                        Tail(to_remove))

\* emit, "Add metadata": the dict built from the publisher's data, which is
\* identified by the number of the emit() call; written holds the handlers
\* that have stored something in the dict
event_data(event_type, k) == [_event_type |-> event_type, payload |-> k, written |-> {}]
NoData == event_data(<<>>, 0)

\* One _handle_event call in progress
Frame(lh, event_type) ==
    [event     |-> event_type,
     data      |-> event_data(event_type, emits + 1),   \* the one dict every callback is given
     to_call   |-> handlers_to_call(lh, event_type),
     to_remove |-> handlers_to_remove(lh, event_type),
     idx       |-> 1,        \* position of the for loop over handlers_to_call
     in_handler |-> FALSE,   \* the callback at idx has been entered
     called    |-> <<>>,     \* the handlers invoked so far, in order
     raised    |-> 0,        \* the callbacks that raised (the errors logged)
     caller    |-> "emit",   \* what called _handle_event
     local_only |-> FALSE]   \* emit's argument local_only

\* The task that runs _subscriber_loop; its _handle_event calls are
\* frames[SubscriberTask]
SubscriberTask == 2
Dispatchers    == BusTasks \cup {SubscriberTask}

\* EventBus.__init__, the fields of the relay: redis and pubsub are TRUE for
\* a reference that is not None; subscriber_task is "none" for None,
\* "pending" for a task that runs, "cancelling" for one whose cancel() was
\* called and "done".  published holds the messages this bus has put on
\* the relay, failed counts the publish errors logged, received holds what
\* get_message has returned, pc is the position of the start() or stop()
\* call op in progress, res what the last such call came to and ncalls how
\* many were made.
Relay(redis_client) ==
    [redis |-> redis_client, is_running |-> FALSE, pubsub |-> FALSE,
     subscriber_task |-> "none", published |-> <<>>, failed |-> 0,
     received |-> <<>>, op |-> "none", pc |-> "idle", res |-> "none", ncalls |-> 0]

\* Variant: local_only is not looked at
published_always(r, f) ==
    IF f.caller = "emit" /\ r.is_running /\ r.redis
    THEN {[r EXCEPT !.published = Append(@, [event |-> f.event, local_only |-> f.local_only])],
          [r EXCEPT !.failed = @ + 1]}
    ELSE {r}

\* emit, "Publish to Redis if not local_only and Redis is available", once
\* its _handle_event call f has returned: redis.publish puts the message on
\* the relay, or raises and the error is logged.  _subscriber_loop calls
\* _handle_event itself, so nothing follows its return.
published(r, f) ==
    IF f.caller = "emit" /\ ~f.local_only /\ r.is_running /\ r.redis
    THEN {[r EXCEPT !.published = Append(@, [event |-> f.event, local_only |-> f.local_only])],
          [r EXCEPT !.failed = @ + 1]}
    ELSE {r}

\* request_response: no call, or the call's position, response_event, the
\* handler_id of handle_response, the nonlocal response_data (NoData for
\* None), what the call returned, and the responses published so far
NoRequest ==
    [pc |-> "none", response_event |-> <<>>, handler_id |-> 0,
     response_data |-> NoData, result |-> NoData, responses |-> 0]

\* the callback is the handle_response of a request_response call
IsResponseHandler(h) == \E t \in BusTasks : requests[t].handler_id = h.handler_id

\* handle_response(resp_data): response_data = resp_data (and the event of
\* the waiting call is set, which calls[handler_id] > 0 stands for); any
\* other callback leaves the requests alone
handle_response(reqs, h, resp_data) ==
    [t \in BusTasks |->
        IF reqs[t].handler_id = h.handler_id
        THEN [reqs[t] EXCEPT !.response_data = resp_data]
        ELSE reqs[t]]

InitBus ==
    /\ local_handlers = <<>>
    /\ next_id = 0
    /\ frames = [t \in Dispatchers |-> <<>>]
    /\ calls = [i \in 1..MaxHandlers |-> 0]
    /\ emits = 0
    /\ requests = [t \in BusTasks |-> NoRequest]

\* @bus.on(pattern, once, priority)
On(pattern, once, priority) ==
    /\ BusOnly
    /\ next_id < MaxHandlers
    /\ emits = 0          \* handlers are registered before the first publish
    /\ next_id' = next_id + 1
    /\ local_handlers' = on(local_handlers, EventHandler(next_id + 1, pattern, once, priority))
    /\ UNCHANGED <<frames, calls, emits, requests, relay>>

\* the _handle_event call f begins: with no handler to call there is
\* nothing to run and nothing to remove, and the call returns
Begun(f, stack) ==
    /\ frames' = [frames EXCEPT ![f.task] = (IF f.frame.to_call = <<>> THEN <<>>
                                             ELSE <<f.frame>>) \o stack]
    /\ relay' \in (IF f.frame.to_call = <<>> THEN published(relay, f.frame) ELSE {relay})

\* emit(event_type, data, local_only) called by a task that is not inside a
\* dispatch: _handle_event up to the first callback
Publish(t, event_type, local_only) ==
    /\ BusOnly
    /\ frames[t] = <<>>
    /\ emits < MaxEmits
    /\ emits' = emits + 1
    /\ Begun([task |-> t, frame |-> [Frame(local_handlers, event_type) EXCEPT
                                        !.local_only = local_only]], <<>>)
    /\ UNCHANGED <<local_handlers, next_id, calls, requests>>

\* emit(event_type, data)
Emit(t, event_type) == Publish(t, event_type, FALSE)

\* the callback at idx has returned: the for loop goes on; after the last
\* callback the once handlers are removed and _handle_event returns
AfterHandler(t, f) ==
    IF f.idx < Len(f.to_call)
    THEN /\ frames' = [frames EXCEPT ![t] =
                         <<[f EXCEPT !.in_handler = FALSE, !.idx = @ + 1]>> \o Tail(@)]
         /\ UNCHANGED <<local_handlers, relay>>
    ELSE /\ frames' = [frames EXCEPT ![t] = Tail(@)]
         /\ local_handlers' = RemoveOnce(local_handlers, f.to_remove)
         /\ relay' \in published(relay, f)

\* the callback at idx is invoked
Invoked(f) == [f EXCEPT !.in_handler = TRUE, !.called = Append(@, f.to_call[f.idx])]

\* _handle_event, "Execute handlers": the callback at idx is called and
\* returns (or raises, which is logged)
HandlerCall(t) ==
    /\ BusOnly
    /\ frames[t] # <<>>
    /\ ~Head(frames[t]).in_handler
    /\ LET f == Invoked(Head(frames[t]))
       IN  /\ calls' = [calls EXCEPT ![f.to_call[f.idx].handler_id] = @ + 1]
           /\ requests' = handle_response(requests, f.to_call[f.idx], f.data)
           /\ AfterHandler(t, f)
    /\ UNCHANGED <<next_id, emits>>

\* Variant: the exception leaves _handle_event and emit
handler_failed_propagates(t, f) ==
    /\ frames' = [frames EXCEPT ![t] = <<>>]
    /\ UNCHANGED <<local_handlers, relay>>

\* _handle_event, "except Exception": the error is logged and the for loop
\* goes on
handler_failed(t, f) == AfterHandler(t, [f EXCEPT !.raised = @ + 1])

\* _handle_event, "Execute handlers": the callback at idx is called and
\* raises
HandlerRaise(t) ==
    /\ BusOnly
    /\ frames[t] # <<>>
    /\ ~Head(frames[t]).in_handler
    /\ ~IsResponseHandler(Head(frames[t]).to_call[Head(frames[t]).idx])
    /\ LET f == Invoked(Head(frames[t]))
       IN  /\ calls' = [calls EXCEPT ![f.to_call[f.idx].handler_id] = @ + 1]
           /\ handler_failed(t, f)
    /\ UNCHANGED <<next_id, emits, requests>>

\* the callback at idx is called and itself calls emit()
HandlerCallEmit(t, event_type) ==
    /\ BusOnly
    /\ frames[t] # <<>>
    /\ ~Head(frames[t]).in_handler
    /\ ~IsResponseHandler(Head(frames[t]).to_call[Head(frames[t]).idx])
    /\ emits < MaxEmits
    /\ LET f == Invoked(Head(frames[t]))
       IN  /\ calls' = [calls EXCEPT ![f.to_call[f.idx].handler_id] = @ + 1]
           /\ Begun([task |-> t, frame |-> Frame(local_handlers, event_type)],
                    <<f>> \o Tail(frames[t]))
    /\ emits' = emits + 1
    /\ UNCHANGED <<local_handlers, next_id, requests>>

\* a callback whose emit() has returned returns, or raises
HandlerReturn(t, raises) ==
    /\ BusOnly
    /\ frames[t] # <<>>
    /\ Head(frames[t]).in_handler
    /\ IF raises THEN handler_failed(t, Head(frames[t]))
                 ELSE AfterHandler(t, Head(frames[t]))
    /\ UNCHANGED <<next_id, calls, emits, requests>>

\* Variant: the handlers are removed and the key stays
off_keeps_bucket(lh, event_type) ==
    [i \in 1..Len(lh) |->
        IF lh[i].pattern = event_type THEN [lh[i] EXCEPT !.handlers = <<>>] ELSE lh[i]]

\* off(event_type): del self.local_handlers[event_type]
off(lh, event_type) ==
    LET others(b) == b.pattern # event_type IN SelectSeq(lh, others)

\* off(event_type, handler_id): the handler is filtered out of the list of
\* the key, which stays; a handler_id of 0 stands for None
off_handler_id(lh, event_type, handler_id) ==
    IF handler_id = 0 THEN off(lh, event_type)
    ELSE LET keep(h) == h.handler_id # handler_id
         IN  [i \in 1..Len(lh) |->
                IF lh[i].pattern = event_type
                THEN [lh[i] EXCEPT !.handlers = SelectSeq(@, keep)] ELSE lh[i]]

\* the callback at idx is called, calls off(event_type, handler_id) and
\* returns
HandlerOff(t, event_type, handler_id) ==
    /\ BusOnly
    /\ frames[t] # <<>>
    /\ ~Head(frames[t]).in_handler
    /\ ~IsResponseHandler(Head(frames[t]).to_call[Head(frames[t]).idx])
    /\ LET f  == Invoked(Head(frames[t]))
           lh == off_handler_id(local_handlers, event_type, handler_id)
       IN  /\ calls' = [calls EXCEPT ![f.to_call[f.idx].handler_id] = @ + 1]
           /\ IF f.idx < Len(f.to_call)
              THEN /\ frames' = [frames EXCEPT ![t] =
                                   <<[f EXCEPT !.in_handler = FALSE, !.idx = @ + 1]>>
                                       \o Tail(@)]
                   /\ local_handlers' = lh
                   /\ UNCHANGED relay
              ELSE /\ frames' = [frames EXCEPT ![t] = Tail(@)]
                   /\ local_handlers' = RemoveOnce(lh, f.to_remove)
                   /\ relay' \in published(relay, f)
    /\ UNCHANGED <<next_id, emits, requests>>

\* request_response: response_event, with "response" and the request_id as
\* single elements
response_event(event_type, request_id) ==
    event_type \o <<".", "response", ".", request_id>>

\* request_response up to the first callback of the request's dispatch:
\* handle_response is registered with once=True and the request is emitted
Request(t, event_type) ==
    /\ BusOnly
    /\ frames[t] = <<>>
    /\ requests[t].pc # "sent"
    /\ emits < MaxEmits /\ next_id < MaxHandlers
    /\ LET re == response_event(event_type, ToString(emits + 1))
           lh == on(local_handlers, EventHandler(next_id + 1, re, TRUE, 0))
           f  == Frame(lh, event_type)
       IN  /\ local_handlers' = lh
           /\ Begun([task |-> t, frame |-> f], <<>>)
           /\ requests' = [requests EXCEPT ![t] =
                             [NoRequest EXCEPT !.pc = "sent", !.response_event = re,
                                               !.handler_id = next_id + 1]]
    /\ next_id' = next_id + 1
    /\ emits' = emits + 1
    /\ UNCHANGED calls

\* request_response: handle_response has run, wait_for returns and the call
\* returns the response
Answered(t) ==
    /\ BusOnly
    /\ frames[t] = <<>>
    /\ requests[t].pc = "sent"
    /\ calls[requests[t].handler_id] > 0
    /\ requests' = [requests EXCEPT ![t].pc = "answered",
                                    ![t].result = requests[t].response_data]
    /\ UNCHANGED <<local_handlers, next_id, frames, calls, emits, relay>>

\* request_response: the timeout elapses with no response; off() and
\* TimeoutError
Timeout(t) ==
    /\ BusOnly
    /\ frames[t] = <<>>
    /\ requests[t].pc = "sent"
    /\ calls[requests[t].handler_id] = 0
    /\ local_handlers' = off(local_handlers, requests[t].response_event)
    /\ requests' = [requests EXCEPT ![t].pc = "timeout"]
    /\ UNCHANGED <<next_id, frames, calls, emits, relay>>

\* bound: the responses published to one request
MaxResponses == 2

\* the callback at idx, given the request or a response to it, publishes a
\* response: emit(data['_response_event'], payload)
HandlerRespond(t) ==
    /\ BusOnly
    /\ frames[t] # <<>>
    /\ ~Head(frames[t]).in_handler
    /\ ~IsResponseHandler(Head(frames[t]).to_call[Head(frames[t]).idx])
    /\ requests[t].pc = "sent" /\ requests[t].responses < MaxResponses
    /\ LET f == Invoked(Head(frames[t]))
       IN  /\ calls' = [calls EXCEPT ![f.to_call[f.idx].handler_id] = @ + 1]
           /\ Begun([task |-> t, frame |-> Frame(local_handlers, requests[t].response_event)],
                    <<f>> \o Tail(frames[t]))
    /\ emits' = emits + 1
    /\ requests' = [requests EXCEPT ![t].responses = @ + 1]
    /\ UNCHANGED <<local_handlers, next_id>>

\* the callback at idx stores something in the dict it was given
\* (data[key] = value) and returns
HandlerMutate(t) ==
    /\ BusOnly
    /\ frames[t] # <<>>
    /\ ~Head(frames[t]).in_handler
    /\ ~IsResponseHandler(Head(frames[t]).to_call[Head(frames[t]).idx])
    /\ LET f == Invoked(Head(frames[t]))
           h == f.to_call[f.idx]
       IN  /\ calls' = [calls EXCEPT ![h.handler_id] = @ + 1]
           /\ AfterHandler(t, [f EXCEPT !.data.written = @ \cup {h.handler_id}])
    /\ UNCHANGED <<next_id, emits, requests>>

-----------------------------------------------------------------------------
(* EventBus: the relay.  start() and stop() are called by one task (the    *)
(* lifespan of main.py); the messages get_message returns are whatever the  *)
(* relay delivers.                                                          *)

\* bounds of the relay model
MaxMessages  == 2    \* messages get_message returns in one behaviour
MaxLifecycle == 3    \* start() and stop() calls made in one behaviour

NoRelayChange == UNCHANGED <<local_handlers, next_id, frames, calls, emits, requests>>

\* Variant: start() has no try around the subscription
subscribe_failed_raises(r) == [r EXCEPT !.pc = "idle", !.res = "raised"]

\* start, "except Exception": the warning is logged, redis and pubsub are
\* set to None, and start goes on to return
subscribe_failed(r) ==
    [r EXCEPT !.redis = FALSE, !.pubsub = FALSE, !.pc = "idle", !.res = "ok"]

\* start() is called: up to "await self.pubsub.subscribe", or to the return
\* when the bus is running, has no relay, or redis.pubsub() raises
Start ==
    /\ BusOnly /\ NoRelayChange
    /\ relay.pc = "idle" /\ relay.ncalls < MaxLifecycle
    /\ LET r == [relay EXCEPT !.ncalls = @ + 1, !.op = "start", !.res = "none"]
           running == [r EXCEPT !.is_running = TRUE]
       IN  relay' \in
             IF relay.is_running THEN {[r EXCEPT !.res = "ok"]}
             ELSE IF ~relay.redis THEN {[running EXCEPT !.res = "ok"]}
             ELSE {subscribe_failed(running),
                   [running EXCEPT !.pubsub = TRUE, !.pc = "subscribe"]}

\* start: subscribe returns and the subscriber task is created, or
\* subscribe raises
Subscribed ==
    /\ BusOnly /\ NoRelayChange
    /\ relay.pc = "subscribe"
    /\ relay' \in {[relay EXCEPT !.subscriber_task = "pending", !.pc = "idle", !.res = "ok"],
                   subscribe_failed(relay)}

\* stop, after the subscriber task has been awaited: on to pubsub.unsubscribe
\* where there is a pubsub
stop_awaited(r) ==
    IF r.pubsub THEN [r EXCEPT !.pc = "stop_close"]
    ELSE [r EXCEPT !.pc = "idle", !.res = "ok"]

\* stop() is called: up to "await self.subscriber_task", or to the return
\* when the bus is not running
Stop ==
    /\ BusOnly /\ NoRelayChange
    /\ relay.pc = "idle" /\ relay.ncalls < MaxLifecycle
    /\ LET r == [relay EXCEPT !.ncalls = @ + 1, !.op = "stop", !.res = "none"]
           stopped == [r EXCEPT !.is_running = FALSE]
       IN  relay' =
             IF ~relay.is_running THEN [r EXCEPT !.res = "ok"]
             ELSE IF relay.subscriber_task = "none" THEN stop_awaited(stopped)
             ELSE [stopped EXCEPT !.pc = "stop_await",
                                  !.subscriber_task = IF @ = "pending" THEN "cancelling"
                                                      ELSE @]

\* _subscriber_loop, "except asyncio.CancelledError": the task that was
\* cancelled is given CancelledError where it is suspended, in get_message
\* or in a callback, and the loop ends
Cancelled ==
    /\ BusOnly
    /\ relay.subscriber_task = "cancelling"
    /\ frames' = [frames EXCEPT ![SubscriberTask] = <<>>]
    /\ relay' = [relay EXCEPT !.subscriber_task = "done"]
    /\ UNCHANGED <<local_handlers, next_id, calls, emits, requests>>

\* stop: "await self.subscriber_task" returns once the task is done
StopAwaited ==
    /\ BusOnly /\ NoRelayChange
    /\ relay.pc = "stop_await" /\ relay.subscriber_task = "done"
    /\ relay' = stop_awaited(relay)

\* stop: unsubscribe and close return, or one of them raises and the
\* warning is logged
StopClosed ==
    /\ BusOnly /\ NoRelayChange
    /\ relay.pc = "stop_close"
    /\ relay' = [relay EXCEPT !.pc = "idle", !.res = "ok"]

\* Variant: the loop hands the event to emit()
ingested_through_emit(lh, event_type) == Frame(lh, event_type)

\* _subscriber_loop: await self._handle_event(event_type, data, local_only=False)
ingested(lh, event_type) == [Frame(lh, event_type) EXCEPT !.caller = "_subscriber_loop"]

\* _subscriber_loop: get_message returns.  "other" is None, a message whose
\* type is not 'message' or whose channel has no 'dashboard:' prefix, and
\* nothing is done with it; "malformed" is one whose data json.loads
\* rejects, which is logged; "event" is dispatched.
Ingest(kind, event_type) ==
    /\ BusOnly
    /\ relay.subscriber_task = "pending" /\ relay.is_running
    /\ frames[SubscriberTask] = <<>>
    /\ Len(relay.received) < MaxMessages
    /\ relay' = [relay EXCEPT !.received = Append(@, kind)]
    /\ LET f == ingested(local_handlers, event_type)
       IN  frames' = [frames EXCEPT ![SubscriberTask] =
                        IF kind = "event" /\ f.to_call # <<>> THEN <<f>> ELSE <<>>]
    /\ UNCHANGED <<local_handlers, next_id, calls, emits, requests>>

\* _subscriber_loop, "except Exception" of the outer try: get_message
\* raises and the loop ends
LoopFails ==
    /\ BusOnly /\ NoRelayChange
    /\ relay.subscriber_task = "pending"
    /\ frames[SubscriberTask] = <<>>
    /\ relay' = [relay EXCEPT !.subscriber_task = "done"]

NextBus ==
    \/ \E p \in BusPatterns, o \in BOOLEAN, pr \in Priorities : On(p, o, pr)
    \/ \E t \in BusTasks, e \in BusEvents : Emit(t, e)
    \/ \E t \in BusTasks : HandlerCall(t)
    \/ \E t \in BusTasks, e \in BusEvents : HandlerCallEmit(t, e)
    \/ \E t \in BusTasks : HandlerReturn(t, FALSE)

-----------------------------------------------------------------------------
(* ModuleLoader: data *)

\* bounds of the loader model
MaxCalls  == 3     \* load/unload/reload calls made in one behaviour

Names    == {"A", "B"}
Tasks    == {1, 2, 3}
GenTasks == {1, 2}          \* the tasks that make calls in Spec
NoFile   == "nowhere"       \* a directory without module.py
Flaky    == {"B"}           \* the extensions whose own code may raise

\* What an extension's constructor declares with add_dependency: module_b
\* of test_module_dependency_lifecycle depends on module_a.
DeclaredDeps(n) == IF n = "B" THEN {"A"} ELSE {}

NoError == [kind |-> "none", names |-> {}, prefix |-> ""]
Error(kind, names) == [kind |-> kind, names |-> names, prefix |-> ""]

\* ModuleInfo; exists = FALSE stands for a name that is no key of module_info
\* key is the position of the name among the keys of the module_info dict
NoInfo ==
    [exists |-> FALSE, key |-> 0, path |-> NoFile, module |-> 0, state |-> "unloaded",
     last_modified |-> 0, error |-> NoError, reload_count |-> 0]

\* self.module_info[n] = ModuleInfo(...): a new key goes last, a key that
\* exists keeps its position
KeyFor(mi, n) ==
    IF mi[n].exists THEN mi[n].key
    ELSE Cardinality({m \in DOMAIN mi : mi[m].exists}) + 1

ModuleInfo(mi, n, path, state, last_modified, error) ==
    [exists |-> TRUE, key |-> KeyFor(mi, n), path |-> path, module |-> 0,
     state |-> state, last_modified |-> last_modified, error |-> error,
     reload_count |-> 0]

\* list(self.module_info.keys())
RECURSIVE KeysFrom(_, _)
KeysFrom(mi, k) ==
    IF \E n \in DOMAIN mi : mi[n].exists /\ mi[n].key = k
    THEN <<CHOOSE n \in DOMAIN mi : mi[n].exists /\ mi[n].key = k>> \o KeysFrom(mi, k + 1)
    ELSE <<>>

info_keys(mi) == KeysFrom(mi, 1)

\* The extensions whose initialize() starts a background task and registers
\* it with schedule_cleanup_task (cleanup_module of
\* test_module_cleanup_integration)
SchedulesTask(n) == n = "A"

\* BaseModule.__init__, followed by the subclass's add_dependency calls.
\* cleanup_tasks is the list _cleanup_tasks; a background task is named by
\* the index of the instance that created it, and unfinished holds the tasks
\* the instance created that are not done.
BaseModule(name) ==
    [name |-> name, state |-> "loaded",
     dependencies |-> DeclaredDeps(name), dependents |-> {},
     cleanup_tasks |-> <<>>, unfinished |-> {}]

\* initialize() of instance i of extension n, returning
initialize(inst, n, i) ==
    IF SchedulesTask(n)
    THEN [inst EXCEPT !.cleanup_tasks = Append(@, i), !.unfinished = @ \cup {i}]
    ELSE inst

\* Variant: the list is cleared and the tasks are left running
cleanup_keeps_tasks(inst) == [inst EXCEPT !.cleanup_tasks = <<>>]

\* BaseModule.cleanup: every task of the list that is not done is cancelled
\* and awaited, and the list is cleared
cleanup(inst) ==
    [inst EXCEPT !.unfinished = @ \ Range(inst.cleanup_tasks),
                 !.cleanup_tasks = <<>>]

\* self.modules, a dict: name -> index into insts
IsLoaded(mods, n) == \E i \in 1..Len(mods) : mods[i].name = n
ModuleOf(mods, n) == mods[CHOOSE i \in 1..Len(mods) : mods[i].name = n].inst

\* self.modules[name] = instance
store_module(mods, n, inst) ==
    IF IsLoaded(mods, n)
    THEN [i \in 1..Len(mods) |->
            IF mods[i].name = n THEN [name |-> n, inst |-> inst] ELSE mods[i]]
    ELSE Append(mods, [name |-> n, inst |-> inst])

\* Variant: the name stays in the dict
del_module_skipped(mods, n) == mods

\* del self.modules[name]
del_module(mods, n) ==
    LET keep(m) == m.name # n IN SelectSeq(mods, keep)

\* module_file.exists()
file_exists(path) == path # NoFile

\* Variant: acquire() that never waits
lock_is_free_unchecked(lock) == TRUE

\* asyncio.Lock: acquire() returns at once when the lock is not held and
\* nobody waits; release() hands the lock to the first waiter.
lock_is_free(lock) == lock.owner = 0 /\ lock.waiters = <<>>

\* Variant: load_module without the check
already_loaded_unchecked(mods, n) == FALSE

\* load_module, "Check if already loaded"
already_loaded(mods, n) == IsLoaded(mods, n)

\* Variant: the check looks at the wrong set
unload_blocked_by_dependencies(force, module) == ~force /\ module.dependencies # {}

\* unload_module, "Check for dependents unless force unload"
unload_blocked(force, module) == ~force /\ module.dependents # {}

\* Variant: a file as old as the record counts as modified
reload_skipped_strict(info, current_modified, force) ==
    /\ info.last_modified # 0
    /\ current_modified < info.last_modified
    /\ ~force

\* reload_module, "Check if file has been modified"
reload_skipped(info, current_modified, force) ==
    /\ info.last_modified # 0
    /\ current_modified <= info.last_modified
    /\ ~force

\* Variant: unload_module without the update
update_dependencies_skipped(is, mods, n, module) == is

\* unload_module, "Update dependencies"
update_dependencies(is, mods, n, module) ==
    [i \in 1..Len(is) |->
        IF \E d \in module.dependencies : IsLoaded(mods, d) /\ ModuleOf(mods, d) = i
        THEN [is[i] EXCEPT !.dependents = @ \ {n}]
        ELSE is[i]]

\* Variant: the count is stored as it is
next_reload_count_same(info) == info.reload_count

\* reload_module, "Store reload count"
next_reload_count(info) == info.reload_count + 1

\* Variant: the reference to the instance is kept
unloaded_info_keeps_module(mi, n) == [mi EXCEPT ![n].state = "unloaded"]

\* Variant: the record is deleted with the instance
unloaded_info_deleted(mi, n) == [mi EXCEPT ![n] = NoInfo]

\* unload_module, the second "Update state"
unloaded_info(mi, n) == [mi EXCEPT ![n].state = "unloaded", ![n].module = 0]

\* load_module's except clause: "Update module info with error"
load_error_info(mi, n, path, e) ==
    IF mi[n].exists
    THEN [mi EXCEPT ![n].state = "error", ![n].error = e]
    ELSE [mi EXCEPT ![n] = ModuleInfo(mi, n, path, "error", 0, e)]

\* unload_module's except clause: "Update error state"
unload_error_info(mi, n, e) ==
    IF mi[n].exists
    THEN [mi EXCEPT ![n].state = "error",
                    ![n].error = [e EXCEPT !.prefix = "Unload error: "]]
    ELSE mi

\* A task: op is the call of load_module, unload_module or reload_module it
\* is in, outer the call of auto_reload_changed_modules, reload_all_modules
\* or unload_all_modules that made that call, batch the names its loop has
\* still to visit, results its dict of results and complete the counts in
\* the data of module.reload_all_complete; index is the position of the loop
\* of BaseModule.cleanup in the list of tasks
IdleTask ==
    [op |-> "none", name |-> "A", force |-> FALSE, path |-> NoFile,
     pc |-> "idle", reload_count |-> 0, module_instance |-> 0,
     res |-> "none", exc |-> NoError, ev |-> <<>>,
     outer |-> "none", batch |-> <<>>, results |-> [n \in Names |-> "none"],
     complete |-> [success_count |-> 0, error_count |-> 0], index |-> 0]

InitLoader ==
    /\ modules = <<>>
    /\ insts = <<>>
    /\ module_info = [n \in Names |-> NoInfo]
    /\ loading_lock = [owner |-> 0, waiters |-> <<>>]
    /\ tasks = [t \in Tasks |-> IdleTask]
    /\ cur = 0
    /\ mtime = [n \in Names |-> 1]
    /\ ncalls = 0

\* The outcomes the code of extension n may have at a step
Outcomes(n) == IF n \in Flaky THEN {"ok", "fail"} ELSE {"ok"}

Runs(t) == cur \in {0, t}

\* the call returns to the task's own code
Finished(tk)  == [tk EXCEPT !.pc = IF tk.outer = "none" THEN "idle" ELSE "batch_next",
                             !.path = NoFile, !.reload_count = 0,
                             !.module_instance = 0, !.index = 0]
\* who runs after the call has returned: the loop of the outer call goes on
\* without suspending
Resumes(tk, t) == IF tk.outer = "none" THEN 0 ELSE t
Returned(tk)  == [Finished(tk) EXCEPT !.res = "ok"]
Raised(tk, e) == [Finished(tk) EXCEPT !.res = "raised", !.exc = e]
Emitted(tk, event) == [tk EXCEPT !.ev = Append(@, event)]

-----------------------------------------------------------------------------
(* ModuleLoader: the calls.  Each action is the code a task runs from one   *)
(* point where it may be suspended to the next; cur' = t says that the task *)
(* goes on without suspending, cur' = 0 that other tasks may run first.     *)
(* emit() is such a point (its handlers may suspend), and so is every hook. *)

\* a task calls load_module(n, path)
CallLoad(t, n, path) ==
    /\ LoaderOnly
    /\ ncalls < MaxCalls
    /\ cur = 0 /\ tasks[t].pc = "idle"
    /\ tasks' = [tasks EXCEPT ![t] =
                   [IdleTask EXCEPT !.op = "load", !.name = n, !.path = path,
                                    !.pc = "load_acquire"]]
    /\ cur' = t
    /\ ncalls' = ncalls + 1
    /\ UNCHANGED <<modules, insts, module_info, loading_lock, mtime>>

\* a task calls unload_module(n, force)
CallUnload(t, n, force) ==
    /\ LoaderOnly
    /\ ncalls < MaxCalls
    /\ cur = 0 /\ tasks[t].pc = "idle"
    /\ tasks' = [tasks EXCEPT ![t] =
                   [IdleTask EXCEPT !.op = "unload", !.name = n, !.force = force,
                                    !.pc = "unload_check"]]
    /\ cur' = t
    /\ ncalls' = ncalls + 1
    /\ UNCHANGED <<modules, insts, module_info, loading_lock, mtime>>

\* a task calls reload_module(n, force)
CallReload(t, n, force) ==
    /\ LoaderOnly
    /\ ncalls < MaxCalls
    /\ cur = 0 /\ tasks[t].pc = "idle"
    /\ tasks' = [tasks EXCEPT ![t] =
                   [IdleTask EXCEPT !.op = "reload", !.name = n, !.force = force,
                                    !.pc = "reload_check"]]
    /\ cur' = t
    /\ ncalls' = ncalls + 1
    /\ UNCHANGED <<modules, insts, module_info, loading_lock, mtime>>

\* async with self._loading_lock: acquire()
Acquire(t) ==
    /\ LoaderOnly
    /\ Runs(t)
    /\ tasks[t].pc \in {"load_acquire", "unload_acquire"}
    /\ LET body == IF tasks[t].pc = "load_acquire" THEN "load_body" ELSE "unload_body"
           wait == IF tasks[t].pc = "load_acquire" THEN "load_wait" ELSE "unload_wait"
       IN  IF lock_is_free(loading_lock)
           THEN /\ loading_lock' = [loading_lock EXCEPT !.owner = t]
                /\ tasks' = [tasks EXCEPT ![t].pc = body]
                /\ cur' = t
           ELSE /\ loading_lock' = [loading_lock EXCEPT !.waiters = Append(@, t)]
                /\ tasks' = [tasks EXCEPT ![t].pc = wait]
                /\ cur' = 0
    /\ UNCHANGED <<modules, insts, module_info, mtime, ncalls>>

\* acquire() of a waiting task returns: the lock was released and the task is
\* the first waiter
Wake(t) ==
    /\ LoaderOnly
    /\ cur = 0
    /\ tasks[t].pc \in {"load_wait", "unload_wait"}
    /\ loading_lock.owner = 0
    /\ loading_lock.waiters # <<>> /\ Head(loading_lock.waiters) = t
    /\ loading_lock' = [owner |-> t, waiters |-> Tail(loading_lock.waiters)]
    /\ tasks' = [tasks EXCEPT ![t].pc =
                   IF tasks[t].pc = "load_wait" THEN "load_body" ELSE "unload_body"]
    /\ cur' = t
    /\ UNCHANGED <<modules, insts, module_info, mtime, ncalls>>

\* leaving "async with": release()
Released(lock) == [lock EXCEPT !.owner = 0]

\* load_module, lines 274-301: up to emit("module.loading")
LoadBody(t) ==
    /\ LoaderOnly
    /\ Runs(t) /\ tasks[t].pc = "load_body"
    /\ LET tk == tasks[t]
           n  == tk.name
       IN  IF already_loaded(modules, n)
           THEN /\ tasks' = [tasks EXCEPT ![t].pc = "load_exit"]
                /\ cur' = t
                /\ UNCHANGED module_info
           ELSE IF ~file_exists(tk.path)
           THEN LET e == Error("FileNotFoundError", {})
                IN  /\ module_info' = load_error_info(module_info, n, tk.path, e)
                    /\ tasks' = [tasks EXCEPT ![t] =
                                   [Emitted(tk, "module.load_error") EXCEPT
                                       !.pc = "load_raise", !.exc = e]]
                    /\ cur' = 0
           ELSE /\ module_info' = [module_info EXCEPT ![n] =
                                     ModuleInfo(module_info, n, tk.path, "loading",
                                                mtime[tk.path], NoError)]
                /\ tasks' = [tasks EXCEPT ![t] =
                               [Emitted(tk, "module.loading") EXCEPT !.pc = "load_import"]]
                /\ cur' = 0
    /\ UNCHANGED <<modules, insts, loading_lock, mtime, ncalls>>

\* load_module, lines 303-351: the import, create_module, up to the call of
\* pre_initialize().  The extension's code may fail to execute, lack
\* create_module, or return something that is no BaseModule.
LoadImport(t) ==
    /\ LoaderOnly
    /\ Runs(t) /\ tasks[t].pc = "load_import"
    /\ LET tk == tasks[t]
           n  == tk.name
       IN  \E o \in Outcomes(n), kind \in {"ImportError", "AttributeError", "TypeError"} :
             /\ IF o = "ok"
                THEN /\ kind = "TypeError"
                     /\ insts' = Append(insts, [BaseModule(n) EXCEPT !.state = "initializing"])
                     /\ module_info' = [module_info EXCEPT
                                          ![n].module = Len(insts) + 1,
                                          ![n].state = "initializing"]
                     /\ tasks' = [tasks EXCEPT ![t].pc = "load_pre_initialize",
                                               ![t].module_instance = Len(insts) + 1]
                ELSE /\ module_info' = load_error_info(module_info, n, tk.path, Error(kind, {}))
                     /\ tasks' = [tasks EXCEPT ![t] =
                                    [Emitted(tk, "module.load_error") EXCEPT
                                        !.pc = "load_raise", !.exc = Error(kind, {})]]
                     /\ UNCHANGED insts
    /\ cur' = 0
    /\ UNCHANGED <<modules, loading_lock, mtime, ncalls>>

\* Variant: initialize() is left out
NextLoadHook_skips_initialize(pc) == "load_post_initialize"

NextLoadHook(pc) ==
    IF pc = "load_pre_initialize" THEN "load_initialize" ELSE "load_post_initialize"

\* load_module, lines 351-368: pre_initialize(), initialize(),
\* post_initialize() return or raise; after the last, up to
\* emit("module.loaded"), or to emit("module.load_error") when get_info()
\* raises
LoadHook(t) ==
    /\ LoaderOnly
    /\ Runs(t)
    /\ tasks[t].pc \in {"load_pre_initialize", "load_initialize", "load_post_initialize"}
    /\ LET tk == tasks[t]
           n  == tk.name
           i  == tk.module_instance
       IN  \E o \in Outcomes(n) :
             /\ IF o = "fail"
                THEN LET e == Error("HookError", {})
                     IN  /\ module_info' = load_error_info(module_info, n, tk.path, e)
                         /\ tasks' = [tasks EXCEPT ![t] =
                                        [Emitted(tk, "module.load_error") EXCEPT
                                            !.pc = "load_raise", !.exc = e]]
                         /\ UNCHANGED <<modules, insts>>
                ELSE IF tk.pc # "load_post_initialize"
                THEN /\ tasks' = [tasks EXCEPT ![t].pc = NextLoadHook(tk.pc)]
                     /\ insts' = IF tk.pc = "load_initialize"
                                 THEN [insts EXCEPT ![i] = initialize(@, n, i)]
                                 ELSE insts
                     /\ UNCHANGED <<modules, module_info>>
                ELSE \* "Mark as ready", "Store the module"; then get_info(),
                     \* which calls the extension's get_routes(), for the
                     \* data of module.loaded
                     \E g \in Outcomes(n) :
                       /\ insts' = [insts EXCEPT ![i].state = "ready"]
                       /\ modules' = store_module(modules, n, i)
                       /\ IF g = "ok"
                          THEN /\ module_info' = [module_info EXCEPT ![n].state = "ready"]
                               /\ tasks' = [tasks EXCEPT ![t] =
                                              [Emitted(tk, "module.loaded") EXCEPT
                                                  !.pc = "load_exit"]]
                          ELSE LET e == Error("RoutesError", {})
                               IN  /\ module_info' = load_error_info(
                                          [module_info EXCEPT ![n].state = "ready"],
                                          n, tk.path, e)
                                   /\ tasks' = [tasks EXCEPT ![t] =
                                                  [Emitted(tk, "module.load_error") EXCEPT
                                                      !.pc = "load_raise", !.exc = e]]
    /\ cur' = 0
    /\ UNCHANGED <<loading_lock, mtime, ncalls>>

\* load_module returns: the lock is released; reload_module goes on
LoadExit(t) ==
    /\ LoaderOnly
    /\ Runs(t) /\ tasks[t].pc = "load_exit"
    /\ loading_lock' = Released(loading_lock)
    /\ IF tasks[t].op = "reload"
       THEN /\ tasks' = [tasks EXCEPT ![t].pc = "reload_after_load"]
            /\ cur' = t
       ELSE /\ tasks' = [tasks EXCEPT ![t] = Returned(@)]
            /\ cur' = Resumes(tasks[t], t)
    /\ UNCHANGED <<modules, insts, module_info, mtime, ncalls>>

\* load_module re-raises, line 393: the lock is released
LoadRaise(t) ==
    /\ LoaderOnly
    /\ Runs(t) /\ tasks[t].pc = "load_raise"
    /\ loading_lock' = Released(loading_lock)
    /\ IF tasks[t].op = "reload"
       THEN /\ tasks' = [tasks EXCEPT ![t].pc = "reload_except"]
            /\ cur' = t
       ELSE /\ tasks' = [tasks EXCEPT ![t] = Raised(@, @.exc)]
            /\ cur' = Resumes(tasks[t], t)
    /\ UNCHANGED <<modules, insts, module_info, mtime, ncalls>>

\* unload_module, lines 397-399
UnloadCheck(t) ==
    /\ LoaderOnly
    /\ Runs(t) /\ tasks[t].pc = "unload_check"
    /\ IF IsLoaded(modules, tasks[t].name)
       THEN /\ tasks' = [tasks EXCEPT ![t].pc = "unload_acquire"]
            /\ cur' = t
       ELSE IF tasks[t].op = "reload"
       THEN /\ tasks' = [tasks EXCEPT ![t].pc = "load_acquire"]
            /\ cur' = t
       ELSE /\ tasks' = [tasks EXCEPT ![t] = Returned(@)]
            /\ cur' = Resumes(tasks[t], t)
    /\ UNCHANGED <<modules, insts, module_info, loading_lock, mtime, ncalls>>

\* unload_module's except clause, lines 453-460, and the release of the lock
UnloadFailed(t, e) ==
    /\ module_info' = unload_error_info(module_info, tasks[t].name, e)
    /\ loading_lock' = Released(loading_lock)
    /\ IF tasks[t].op = "reload"
       THEN /\ tasks' = [tasks EXCEPT ![t].pc = "reload_except", ![t].exc = e]
            /\ cur' = t
       ELSE /\ tasks' = [tasks EXCEPT ![t] = Raised(@, e)]
            /\ cur' = Resumes(tasks[t], t)

\* unload_module, lines 402-418: up to emit("module.unloading")
UnloadBody(t) ==
    /\ LoaderOnly
    /\ Runs(t) /\ tasks[t].pc = "unload_body"
    /\ LET tk == tasks[t]
           n  == tk.name
       IN  IF ~IsLoaded(modules, n)
           THEN \* self.modules[module_name] raises KeyError
                /\ UnloadFailed(t, Error("KeyError", {n}))
                /\ UNCHANGED insts
           ELSE LET i == ModuleOf(modules, n)
                IN  IF unload_blocked(tk.force, insts[i])
                    THEN /\ UnloadFailed(t, Error("ValueError", insts[i].dependents))
                         /\ UNCHANGED insts
                    ELSE /\ insts' = [insts EXCEPT ![i].state = "unloading"]
                         /\ module_info' = [module_info EXCEPT ![n].state = "unloading"]
                         /\ tasks' = [tasks EXCEPT ![t] =
                                        [Emitted(tk, "module.unloading") EXCEPT
                                            !.pc = "unload_pre_cleanup",
                                            !.module_instance = i]]
                         /\ cur' = 0
                         /\ UNCHANGED loading_lock
    /\ UNCHANGED <<modules, mtime, ncalls>>

NextUnloadHook(pc) ==
    IF pc = "unload_pre_cleanup" THEN "unload_cleanup" ELSE "unload_post_cleanup"

\* unload_module, lines 420-451: pre_cleanup(), cleanup(), post_cleanup()
\* return or raise; after the last, up to emit("module.unloaded")
UnloadHook(t) ==
    /\ LoaderOnly
    /\ Runs(t)
    /\ tasks[t].pc \in {"unload_pre_cleanup", "unload_cleanup", "unload_post_cleanup"}
    /\ LET tk == tasks[t]
           n  == tk.name
           i  == tk.module_instance
       IN  \E o \in Outcomes(n) :
             /\ IF o = "fail"
                THEN /\ UnloadFailed(t, Error("HookError", {}))
                     /\ UNCHANGED <<modules, insts>>
                ELSE IF tk.pc # "unload_post_cleanup"
                THEN /\ tasks' = [tasks EXCEPT ![t].pc = NextUnloadHook(tk.pc)]
                     /\ insts' = IF tk.pc = "unload_cleanup"
                                 THEN [insts EXCEPT ![i] = cleanup(@)]
                                 ELSE insts
                     /\ cur' = 0
                     /\ UNCHANGED <<modules, module_info, loading_lock>>
                ELSE /\ insts' = update_dependencies(insts, modules, n, insts[i])
                     /\ modules' = del_module(modules, n)
                     /\ module_info' = unloaded_info(module_info, n)
                     /\ tasks' = [tasks EXCEPT ![t] =
                                    [Emitted(tk, "module.unloaded") EXCEPT !.pc = "unload_exit"]]
                     /\ cur' = 0
                     /\ UNCHANGED loading_lock
    /\ UNCHANGED <<mtime, ncalls>>

\* unload_module returns: the lock is released; reload_module goes on to
\* load_module
UnloadExit(t) ==
    /\ LoaderOnly
    /\ Runs(t) /\ tasks[t].pc = "unload_exit"
    /\ loading_lock' = Released(loading_lock)
    /\ IF tasks[t].op = "reload"
       THEN /\ tasks' = [tasks EXCEPT ![t].pc = "load_acquire"]
            /\ cur' = t
       ELSE /\ tasks' = [tasks EXCEPT ![t] = Returned(@)]
            /\ cur' = Resumes(tasks[t], t)
    /\ UNCHANGED <<modules, insts, module_info, mtime, ncalls>>

\* reload_module, lines 464-488: up to the call of unload_module or
\* load_module
ReloadCheck(t) ==
    /\ LoaderOnly
    /\ Runs(t) /\ tasks[t].pc = "reload_check"
    /\ LET tk   == tasks[t]
           info == module_info[tk.name]
       IN  IF ~info.exists
              \/ (file_exists(info.path) /\ reload_skipped(info, mtime[info.path], tk.force))
           THEN /\ tasks' = [tasks EXCEPT ![t] = Returned(@)]
                /\ cur' = Resumes(tasks[t], t)
           ELSE /\ tasks' = [tasks EXCEPT
                               ![t].reload_count = next_reload_count(info),
                               ![t].path = info.path,
                               ![t].pc = IF IsLoaded(modules, tk.name)
                                         THEN "unload_check" ELSE "load_acquire"]
                /\ cur' = t
    /\ UNCHANGED <<modules, insts, module_info, loading_lock, mtime, ncalls>>

\* reload_module, lines 493-503: up to emit("module.reloaded")
ReloadAfterLoad(t) ==
    /\ LoaderOnly
    /\ Runs(t) /\ tasks[t].pc = "reload_after_load"
    /\ LET tk == tasks[t]
       IN  /\ module_info' = IF module_info[tk.name].exists
                             THEN [module_info EXCEPT ![tk.name].reload_count = tk.reload_count]
                             ELSE module_info
           /\ tasks' = [tasks EXCEPT ![t] =
                          [Emitted(tk, "module.reloaded") EXCEPT !.pc = "reload_return"]]
    /\ cur' = 0
    /\ UNCHANGED <<modules, insts, loading_lock, mtime, ncalls>>

\* reload_module's except clause, lines 505-512: up to
\* emit("module.reload_error")
ReloadExcept(t) ==
    /\ LoaderOnly
    /\ Runs(t) /\ tasks[t].pc = "reload_except"
    /\ tasks' = [tasks EXCEPT ![t] =
                   [Emitted(tasks[t], "module.reload_error") EXCEPT !.pc = "reload_raise"]]
    /\ cur' = 0
    /\ UNCHANGED <<modules, insts, module_info, loading_lock, mtime, ncalls>>

\* reload_module returns, or re-raises (line 514)
ReloadDone(t) ==
    /\ LoaderOnly
    /\ Runs(t) /\ tasks[t].pc \in {"reload_return", "reload_raise"}
    /\ tasks' = [tasks EXCEPT ![t] =
                   IF @.pc = "reload_return" THEN Returned(@) ELSE Raised(@, @.exc)]
    /\ cur' = Resumes(tasks[t], t)
    /\ UNCHANGED <<modules, insts, module_info, loading_lock, mtime, ncalls>>

\* check_file_changes: the entry of name n
changed(mi, mt, n) ==
    /\ file_exists(mi[n].path)
    /\ mi[n].last_modified # 0
    /\ mt[mi[n].path] > mi[n].last_modified

\* auto_reload_changed_modules: changed_modules
changed_modules(mi, mt) ==
    LET is_changed(n) == changed(mi, mt, n)
    IN  SelectSeq(info_keys(mi), is_changed)

\* Variant: the names in the order of the dict
module_names_in_order(mods) == [k \in 1..Len(mods) |-> mods[k].name]

\* reversed(list(self.modules.keys()))
reversed_module_names(mods) == [k \in 1..Len(mods) |-> mods[Len(mods) + 1 - k].name]

\* a task calls auto_reload_changed_modules(), reload_all_modules(force) or
\* unload_all_modules(force): up to the loop over the names
CallBatch(t, outer, force, names) ==
    /\ LoaderOnly
    /\ ncalls < MaxCalls
    /\ cur = 0 /\ tasks[t].pc = "idle"
    /\ tasks' = [tasks EXCEPT ![t] =
                   [IdleTask EXCEPT !.outer = outer, !.force = force,
                                    !.batch = names, !.pc = "batch_next"]]
    /\ cur' = t
    /\ ncalls' = ncalls + 1
    /\ UNCHANGED <<modules, insts, module_info, loading_lock, mtime>>

\* load_modules: what modules_path.iterdir() may yield, in any order: the
\* subdirectories, each with or without module.py; "_C" stands for a name
\* that starts with '_'
DirNames == Names \cup {"_C"}
Listings ==
    {l \in SeqsUpTo([name : DirNames, file : BOOLEAN], Cardinality(DirNames)) :
        \A i, j \in 1..Len(l) : l[i].name = l[j].name => i = j}

\* _resolve_dependencies: sorted(module_specs.keys()); the declared
\* dependencies are not looked at
resolve_dependencies(module_specs) ==
    LET known(n) == n \in Range(module_specs)
    IN  SelectSeq(<<"A", "B">>, known)

\* load_modules, lines 221-236: module_dirs, the first pass
\* (_discover_module) and the load order
load_order(listing) ==
    LET is_module(d) == d.name # "_C" /\ d.file
        found == SelectSeq(listing, is_module)
    IN  resolve_dependencies([i \in 1..Len(found) |-> found[i].name])

\* what modules_dir may name: nothing, a file that is no directory, or a
\* directory
Roots == {"missing", "file", "dir"}

\* load_modules(modules_dir) is called; path holds what modules_dir names
\* and batch what is in it
CallLoadModules(t, root, listing) ==
    /\ LoaderOnly
    /\ ncalls < MaxCalls
    /\ cur = 0 /\ tasks[t].pc = "idle"
    /\ root # "dir" => listing = <<>>
    /\ tasks' = [tasks EXCEPT ![t] =
                   [IdleTask EXCEPT !.outer = "load_modules", !.path = root,
                                    !.batch = listing, !.pc = "discover"]]
    /\ cur' = t
    /\ ncalls' = ncalls + 1
    /\ UNCHANGED <<modules, insts, module_info, loading_lock, mtime>>

\* load_modules up to the loop over load_order: a modules_dir that does not
\* exist makes it return (lines 214-216), and iterdir() on one that is no
\* directory raises NotADirectoryError, outside every try (line 221)
Discover(t) ==
    /\ LoaderOnly
    /\ Runs(t) /\ tasks[t].pc = "discover"
    /\ LET tk == tasks[t]
       IN  CASE tk.path = "missing" ->
                  /\ tasks' = [tasks EXCEPT ![t] =
                                 [tk EXCEPT !.pc = "idle", !.path = NoFile, !.res = "ok"]]
                  /\ cur' = 0
             [] tk.path = "file" ->
                  /\ tasks' = [tasks EXCEPT ![t] =
                                 [tk EXCEPT !.pc = "idle", !.path = NoFile, !.res = "raised",
                                            !.exc = Error("not_a_directory", {})]]
                  /\ cur' = 0
             [] OTHER ->
                  /\ tasks' = [tasks EXCEPT ![t] =
                                 [tk EXCEPT !.batch = load_order(tk.batch), !.path = NoFile,
                                            !.pc = "batch_next"]]
                  /\ cur' = t
    /\ UNCHANGED <<modules, insts, module_info, loading_lock, mtime, ncalls>>

CallAutoReload(t)       == CallBatch(t, "auto_reload", FALSE, changed_modules(module_info, mtime))
CallReloadAll(t, force) == CallBatch(t, "reload_all", force, info_keys(module_info))
CallUnloadAll(t, force) == CallBatch(t, "unload_all", force, reversed_module_names(modules))

\* Variant: only the calls that returned get an entry
batch_results_of_successes(tk) ==
    IF tk.res # "ok" THEN tk.results
    ELSE [tk.results EXCEPT ![tk.name] = "success"]

\* the try/except in the loop of the three calls: the result of the call
\* that has returned or raised is stored
batch_results(tk) ==
    IF tk.res = "none" THEN tk.results
    ELSE [tk.results EXCEPT ![tk.name] = IF tk.res = "ok" THEN "success" ELSE "error"]

\* reload_all_modules, the data of module.reload_all_complete
success_count(results) == Cardinality({n \in Names : results[n] = "success"})
error_count(results)   == Cardinality({n \in Names : results[n] = "error"})

\* the loop of auto_reload_changed_modules (lines 624-630), of
\* reload_all_modules (568-573), of unload_all_modules (590-595) and of
\* load_modules (239-244): the next name's call is made; after the last
\* name reload_all_modules goes up to emit("module.reload_all_complete") and
\* the others return.  load_modules passes the directory it has discovered,
\* whose module.py may have been removed since.
BatchNext(t) ==
    /\ LoaderOnly
    /\ Runs(t) /\ tasks[t].pc = "batch_next"
    /\ LET tk == [tasks[t] EXCEPT !.results = batch_results(tasks[t])]
       IN  IF tk.batch # <<>>
           THEN /\ \E path \in (IF tk.outer = "load_modules"
                              THEN {Head(tk.batch), NoFile} ELSE {tk.path}) :
                     tasks' = [tasks EXCEPT ![t] =
                               [tk EXCEPT !.name = Head(tk.batch), !.batch = Tail(tk.batch),
                                          !.path = path,
                                          !.op = IF tk.outer = "unload_all" THEN "unload"
                                                 ELSE IF tk.outer = "load_modules" THEN "load"
                                                 ELSE "reload",
                                          !.pc = IF tk.outer = "unload_all" THEN "unload_check"
                                                 ELSE IF tk.outer = "load_modules"
                                                 THEN "load_acquire"
                                                 ELSE "reload_check",
                                          !.res = "none", !.exc = NoError]]
                /\ cur' = t
           ELSE IF tk.outer = "reload_all"
           THEN /\ tasks' = [tasks EXCEPT ![t] =
                               [Emitted(tk, "module.reload_all_complete") EXCEPT
                                   !.pc = "batch_return",
                                   !.complete =
                                      [success_count |-> success_count(tk.results),
                                       error_count   |-> error_count(tk.results)]]]
                /\ cur' = 0
           ELSE /\ tasks' = [tasks EXCEPT ![t] = [tk EXCEPT !.pc = "idle", !.res = "ok"]]
                /\ cur' = 0
    /\ UNCHANGED <<modules, insts, module_info, loading_lock, mtime, ncalls>>

\* reload_all_modules returns reload_results
BatchReturn(t) ==
    /\ LoaderOnly
    /\ Runs(t) /\ tasks[t].pc = "batch_return"
    /\ tasks' = [tasks EXCEPT ![t].pc = "idle", ![t].res = "ok"]
    /\ cur' = 0
    /\ UNCHANGED <<modules, insts, module_info, loading_lock, mtime, ncalls>>

\* a background task of instance i ends by itself
TaskEnds(i) ==
    /\ LoaderOnly
    /\ cur = 0
    /\ i \in 1..Len(insts) /\ i \in insts[i].unfinished
    /\ insts' = [insts EXCEPT ![i].unfinished = @ \ {i}]
    /\ UNCHANGED <<modules, module_info, loading_lock, tasks, cur, mtime, ncalls>>

\* _register_handlers, handle_module_unload and handle_module_reload: while
\* task t is suspended inside the body of load_module or unload_module (in
\* a hook, or in emit() of a lifecycle event), the hook or a handler of the
\* event publishes module.unload for a loaded name, or module.reload with
\* force for a name that has a record.  The handler awaits unload_module or
\* reload_module, whose "async with self._loading_lock" finds the lock
\* held: the task is put among the waiters of the lock it holds itself.
NestedControl(t, n) ==
    /\ LoaderOnly
    /\ cur = 0
    /\ loading_lock.owner = t
    /\ tasks[t].pc # "nested_wait"
    /\ IsLoaded(modules, n) \/ module_info[n].exists
    /\ loading_lock' = [loading_lock EXCEPT !.waiters = Append(@, t)]
    /\ tasks' = [tasks EXCEPT ![t].pc = "nested_wait"]
    /\ UNCHANGED <<modules, insts, module_info, cur, mtime, ncalls>>

------------------------------------------------------------------------------
(* BaseModule.cleanup, step by step, on a module that no loader holds        *)
(* (tests/unit/core/test_base_module.py)                                     *)

MaxBgTasks == 3
BgTasks    == 1..MaxBgTasks

\* How a task that is not done ends once cancel() was called on it: the
\* CancelledError leaves its coroutine, the coroutine catches it and
\* returns, or the coroutine raises another exception while it unwinds
CancelOutcomes == {"cancelled", "returned", "raised"}

\* the fixture test_module: TestModule(started_event_bus)
NewModule ==
    /\ LoaderOnly
    /\ cur = 0
    /\ insts = <<>>
    /\ insts' = <<BaseModule("A")>>
    /\ UNCHANGED <<modules, module_info, loading_lock, tasks, cur, mtime, ncalls>>

\* BaseModule.schedule_cleanup_task(task) of a task that is not yet done
schedule_cleanup_task(inst, k) ==
    [inst EXCEPT !.cleanup_tasks = Append(@, k), !.unfinished = @ \cup {k}]

\* task = asyncio.create_task(...); module.schedule_cleanup_task(task)
ScheduleCleanupTask(i, k) ==
    /\ LoaderOnly
    /\ cur = 0
    /\ i \in 1..Len(insts)
    /\ k \notin Range(insts[i].cleanup_tasks) /\ k \notin insts[i].unfinished
    /\ insts' = [insts EXCEPT ![i] = schedule_cleanup_task(@, k)]
    /\ UNCHANGED <<modules, module_info, loading_lock, tasks, cur, mtime, ncalls>>

\* the task cleanup() has cancelled and awaits, if any
Awaited(i) ==
    {insts[i].cleanup_tasks[tasks[t].index] :
        t \in {u \in Tasks : /\ tasks[u].pc = "cleanup_await"
                             /\ tasks[u].module_instance = i}}

\* a registered task ends by itself, returning or raising (failing_task)
BgTaskEnds(i, k) ==
    /\ LoaderOnly
    /\ cur = 0
    /\ i \in 1..Len(insts)
    /\ k \in insts[i].unfinished \ Awaited(i)
    /\ insts' = [insts EXCEPT ![i].unfinished = @ \ {k}]
    /\ UNCHANGED <<modules, module_info, loading_lock, tasks, cur, mtime, ncalls>>

\* await test_module.cleanup()
CallCleanup(t, i) ==
    /\ LoaderOnly
    /\ ncalls < MaxCalls
    /\ cur = 0 /\ tasks[t].pc = "idle"
    /\ i \in 1..Len(insts)
    /\ tasks' = [tasks EXCEPT ![t] =
                   [IdleTask EXCEPT !.op = "cleanup", !.module_instance = i,
                                    !.pc = "cleanup_loop"]]
    /\ cur' = t
    /\ ncalls' = ncalls + 1
    /\ UNCHANGED <<modules, insts, module_info, loading_lock, mtime>>

\* BaseModule.cleanup, lines 67-74: the for loop takes the next task of the
\* list; a task that is done is passed over, any other is cancelled and
\* awaited; after the last one the list is cleared and cleanup returns
CleanupLoop(t) ==
    /\ LoaderOnly
    /\ Runs(t) /\ tasks[t].pc = "cleanup_loop"
    /\ LET tk   == tasks[t]
           i    == tk.module_instance
           list == insts[i].cleanup_tasks
           j    == tk.index + 1
       IN  IF j > Len(list)
           THEN /\ insts' = [insts EXCEPT ![i].cleanup_tasks = <<>>]
                /\ tasks' = [tasks EXCEPT ![t] = Returned(tk)]
                /\ cur' = 0
           ELSE IF list[j] \notin insts[i].unfinished
           THEN /\ tasks' = [tasks EXCEPT ![t].index = j]
                /\ cur' = t
                /\ UNCHANGED insts
           ELSE /\ tasks' = [tasks EXCEPT ![t].index = j, ![t].pc = "cleanup_await"]
                /\ cur' = 0
                /\ UNCHANGED insts
    /\ UNCHANGED <<modules, module_info, loading_lock, mtime, ncalls>>

\* BaseModule.cleanup, lines 70-73: the cancelled task ends and "await task"
\* is over: a CancelledError is caught, a result is dropped, any other
\* exception leaves cleanup
CleanupAwait(t) ==
    /\ LoaderOnly
    /\ Runs(t) /\ tasks[t].pc = "cleanup_await"
    /\ LET tk == tasks[t]
           i  == tk.module_instance
           k  == insts[i].cleanup_tasks[tk.index]
       IN  \E r \in CancelOutcomes :
             /\ insts' = [insts EXCEPT ![i].unfinished = @ \ {k}]
             /\ IF r = "raised"
                THEN /\ tasks' = [tasks EXCEPT ![t] = Raised(tk, Error("TaskError", {}))]
                     /\ cur' = 0
                ELSE /\ tasks' = [tasks EXCEPT ![t].pc = "cleanup_loop"]
                     /\ cur' = t
    /\ UNCHANGED <<modules, module_info, loading_lock, mtime, ncalls>>

------------------------------------------------------------------------------
\* BaseModule.add_dependent, called on a loaded module by other code
AddDependent(n, d) ==
    /\ LoaderOnly
    /\ cur = 0
    /\ IsLoaded(modules, n)
    /\ d \notin insts[ModuleOf(modules, n)].dependents
    /\ insts' = [insts EXCEPT ![ModuleOf(modules, n)].dependents = @ \cup {d}]
    /\ UNCHANGED <<modules, module_info, loading_lock, tasks, cur, mtime, ncalls>>

\* the extension's module.py is written again.  The code reads only whether
\* st_mtime is newer than the recorded last_modified, so a file that is
\* already newer is not written once more.
Touch(n) ==
    /\ LoaderOnly
    /\ cur = 0
    /\ module_info[n].exists
    /\ mtime[n] <= module_info[n].last_modified
    /\ mtime' = [mtime EXCEPT ![n] = @ + 1]
    /\ UNCHANGED <<modules, insts, module_info, loading_lock, tasks, cur, ncalls>>

\* the steps of a call in progress
LockStep(t)   == Acquire(t) \/ Wake(t)
LoadStep(t)   == LoadBody(t) \/ LoadImport(t) \/ LoadHook(t) \/ LoadExit(t)
UnloadStep(t) == UnloadCheck(t) \/ UnloadBody(t) \/ UnloadHook(t) \/ UnloadExit(t)
ReloadStep(t) == ReloadCheck(t) \/ ReloadAfterLoad(t) \/ ReloadExcept(t) \/ ReloadDone(t)

Step(t) ==
    \/ LockStep(t) \/ LoadStep(t) \/ LoadRaise(t)
    \/ UnloadStep(t) \/ ReloadStep(t)

-----------------------------------------------------------------------------
(* Specifications *)

Init ==
    /\ probe = [pattern |-> <<>>, event |-> <<>>, result |-> "none"]
    /\ InitBus
    /\ InitLoader
    /\ relay = Relay(FALSE)     \* EventBus(): no relay client is given

\* The loader under any calls of two tasks, with other code registering
\* dependents on loaded modules
Next ==
    \/ \E t \in GenTasks, n \in Names, ok \in BOOLEAN :
          CallLoad(t, n, IF ok THEN n ELSE NoFile)
    \/ \E t \in GenTasks, n \in Names, f \in BOOLEAN :
          CallUnload(t, n, f)
    \/ \E t \in GenTasks, n \in Names, f \in BOOLEAN :
          CallReload(t, n, f)
    \/ \E t \in Tasks : Step(t)
    \/ \E n \in Names : \E d \in Names \ {n} : AddDependent(n, d)

Spec == Init /\ [][Next]_vars

\* test_module_dependency_lifecycle: extensions are loaded and unloaded, and
\* dependencies are what the extensions declare themselves
NextDeps ==
    \/ \E t \in GenTasks, n \in Names : CallLoad(t, n, n)
    \/ \E t \in GenTasks, n \in Names, f \in BOOLEAN : CallUnload(t, n, f)
    \/ \E t \in Tasks : LockStep(t) \/ LoadStep(t) \/ LoadRaise(t) \/ UnloadStep(t)

SpecDeps == Init /\ [][NextDeps]_vars

\* test_concurrent_module_loading: load calls only
NextLoadTwice ==
    \/ \E t \in GenTasks, n \in Names, ok \in BOOLEAN :
          CallLoad(t, n, IF ok THEN n ELSE NoFile)
    \/ \E t \in Tasks : LockStep(t) \/ LoadStep(t) \/ LoadRaise(t)

SpecLoadTwice == Init /\ [][NextLoadTwice]_vars

\* test_concurrent_module_operations: "A", whose hooks do not raise, is
\* loaded; then tasks call reload_module("A", force=True)
ReloadCalled == \E t \in Tasks : tasks[t].op = "reload"

FirstLoad ==
    /\ ncalls = 0
    /\ CallLoad(1, "A", "A")

ConcurrentReload(t) ==
    /\ ReloadCalled \/ (IsLoaded(modules, "A") /\ tasks[1].pc = "idle")
    /\ CallReload(t, "A", TRUE)

NextReload ==
    \/ FirstLoad
    \/ \E t \in Tasks : ConcurrentReload(t)
    \/ \E t \in Tasks : LockStep(t) \/ LoadStep(t) \/ UnloadStep(t) \/ ReloadStep(t)

SpecReload == Init /\ [][NextReload]_vars

\* test_reload_module and test_auto_reload_changed_modules: one task loads,
\* the files are written again, and the task reloads
NextHotReload ==
    \/ \E n \in Names : CallLoad(1, n, n)
    \/ \E n \in Names, f \in BOOLEAN : CallReload(1, n, f)
    \/ CallAutoReload(1)
    \/ Acquire(1) \/ LoadStep(1) \/ LoadRaise(1) \/ UnloadStep(1) \/ ReloadStep(1)
    \/ BatchNext(1)
    \/ \E n \in Names : Touch(n)
    \/ \E n \in Names : \E d \in Names \ {n} : AddDependent(n, d)

SpecHotReload == Init /\ [][NextHotReload]_vars

\* test_module_cleanup_integration: loads and unloads of extensions with
\* background tasks, which may end by themselves
NextCleanup ==
    \/ \E t \in GenTasks, n \in Names : CallLoad(t, n, n)
    \/ \E t \in GenTasks, n \in Names, f \in BOOLEAN : CallUnload(t, n, f)
    \/ \E t \in Tasks : LockStep(t) \/ LoadStep(t) \/ LoadRaise(t) \/ UnloadStep(t)
    \/ \E i \in 1..Len(insts) : TaskEnds(i)

SpecCleanup == Init /\ [][NextCleanup]_vars

\* test_module_stats_integration: loads, and the calls that reload and
\* unload every name through reload_module and unload_module
NextAll ==
    \/ \E t \in GenTasks, n \in Names, ok \in BOOLEAN :
          CallLoad(t, n, IF ok THEN n ELSE NoFile)
    \/ \E t \in GenTasks, f \in BOOLEAN : CallReloadAll(t, f)
    \/ \E t \in GenTasks, f \in BOOLEAN : CallUnloadAll(t, f)
    \/ \E t \in Tasks : Step(t) \/ BatchNext(t) \/ BatchReturn(t)

SpecAll == Init /\ [][NextAll]_vars

\* test_unload_all_modules: one task loads, other code registers
\* dependents, and the task calls unload_all_modules
NextUnloadAll ==
    \/ \E n \in Names : CallLoad(1, n, n)
    \/ \E f \in BOOLEAN : CallUnloadAll(1, f)
    \/ Acquire(1) \/ LoadStep(1) \/ LoadRaise(1) \/ UnloadStep(1)
    \/ BatchNext(1)
    \/ \E n \in Names : \E d \in Names \ {n} : AddDependent(n, d)

SpecUnloadAll == Init /\ [][NextUnloadAll]_vars

\* test_cleanup_task_management, test_cleanup_with_completed_tasks and
\* test_cleanup_task_exception_handling: one module, tasks registered with
\* it that end by themselves or when cancelled, and calls of cleanup()
NextBaseCleanup ==
    \/ NewModule
    \/ \E k \in BgTasks : ScheduleCleanupTask(1, k)
    \/ \E k \in BgTasks : BgTaskEnds(1, k)
    \/ CallCleanup(1, 1)
    \/ CleanupLoop(1)
    \/ CleanupAwait(1)

SpecBaseCleanup == Init /\ [][NextBaseCleanup]_vars

\* Loads of extensions whose hooks start background tasks and register them
\* with schedule_cleanup_task, and whose later hooks may raise
NextFailedLoad ==
    \/ \E n \in Names : CallLoad(1, n, n)
    \/ Acquire(1) \/ LoadStep(1) \/ LoadRaise(1)
    \/ /\ tasks[1].module_instance # 0      \* in a hook of the instance
       /\ ScheduleCleanupTask(tasks[1].module_instance, MaxBgTasks)
    \/ \E i \in 1..Len(insts) : BgTaskEnds(i, MaxBgTasks)

SpecFailedLoad == Init /\ [][NextFailedLoad]_vars

\* Loads and unloads whose hooks and event handlers may publish control
\* events; every call that can take a step eventually takes one (the event
\* loop runs every task that is ready)
NextNested ==
    \/ \E t \in GenTasks, n \in Names : CallLoad(t, n, n)
    \/ \E t \in GenTasks, n \in Names, f \in BOOLEAN : CallUnload(t, n, f)
    \/ \E t \in Tasks : LockStep(t) \/ LoadStep(t) \/ LoadRaise(t) \/ UnloadStep(t)
    \/ \E t \in GenTasks, n \in Names : NestedControl(t, n)

SpecNested ==
    /\ Init /\ [][NextNested]_vars
    /\ \A t \in Tasks :
          WF_vars(LockStep(t) \/ LoadStep(t) \/ LoadRaise(t) \/ UnloadStep(t))

\* load_modules on any directory, with another task loading on its own
NextLoadModules ==
    \/ \E root \in Roots, l \in Listings : CallLoadModules(1, root, l)
    \/ \E n \in Names : CallLoad(2, n, n)
    \/ Discover(1) \/ BatchNext(1)
    \/ \E t \in GenTasks : LockStep(t) \/ LoadStep(t) \/ LoadRaise(t)

SpecLoadModules == Init /\ [][NextLoadModules]_vars

\* EventBus(redis_client), with or without a client
InitRelay ==
    /\ probe = [pattern |-> <<>>, event |-> <<>>, result |-> "none"]
    /\ InitBus
    /\ InitLoader
    /\ relay \in {Relay(c) : c \in BOOLEAN}

\* The bus with its relay: publishes, inbound messages, start and stop
NextRelay ==
    \/ /\ relay.ncalls = 0 /\ next_id < 2       \* two handlers, before start()
       /\ On(<<"a", ".", "b">>, FALSE, 0)
    \/ \E lo \in BOOLEAN : Publish(1, <<"a", ".", "b">>, lo)
    \/ HandlerCall(1)
    \/ relay.subscriber_task = "pending" /\ HandlerCall(SubscriberTask)
    \/ Start \/ Subscribed \/ Stop \/ Cancelled \/ StopAwaited \/ StopClosed
    \/ \E k \in {"other", "malformed", "event"} : Ingest(k, <<"a", ".", "b">>)
    \/ LoopFails

SpecRelay == InitRelay /\ [][NextRelay]_vars

\* The event bus alone
SpecBus == Init /\ [][NextBus]_vars

\* Publishes whose handlers may raise: every handler is subscribed to stay,
\* under patterns that both match the one event published
NextIsolation ==
    \/ \E p \in BusPatterns, pr \in Priorities : On(p, FALSE, pr)
    \/ \E t \in BusTasks : Emit(t, <<"a", ".", "b">>)
    \/ \E t \in BusTasks : HandlerCall(t)
    \/ \E t \in BusTasks : HandlerRaise(t)

SpecIsolation == Init /\ [][NextIsolation]_vars

\* Publishes whose handlers may unsubscribe handlers
NextOff ==
    \/ \E p \in BusPatterns, pr \in Priorities : On(p, FALSE, pr)
    \/ \E t \in BusTasks : Emit(t, <<"a", ".", "b">>)
    \/ \E t \in BusTasks : HandlerCall(t)
    \/ \E t \in BusTasks, p \in BusPatterns, h \in 0..MaxHandlers :
          HandlerOff(t, p, h)

SpecOff == Init /\ [][NextOff]_vars

\* the response events of the requests that wait
PendingResponses == {requests[t].response_event : t \in {u \in BusTasks : requests[u].pc = "sent"}}

\* request_response: requests, whose handlers may answer or not
NextRequest ==
    \/ \E p \in BusPatterns, o \in BOOLEAN : On(p, o, 0)
    \/ \E t \in BusTasks, e \in BusEvents : Request(t, e)
    \/ \E t \in BusTasks : HandlerCall(t)
    \/ \E t \in BusTasks : HandlerRaise(t)
    \/ \E t \in BusTasks, e \in PendingResponses : HandlerCallEmit(t, e)
    \/ \E t \in BusTasks, r \in BOOLEAN : HandlerReturn(t, r)
    \/ \E t \in BusTasks : Answered(t)
    \/ \E t \in BusTasks : Timeout(t)

SpecRequest == Init /\ [][NextRequest]_vars

\* request_response whose request is answered, once or more than once, by
\* handlers subscribed before or after (in priority) handle_response
NextResponse ==
    \/ \E p \in BusPatterns, pr \in {-1, 0} : On(p, FALSE, pr)
    \/ \E t \in BusTasks : Request(t, <<"a", ".", "b">>)
    \/ \E t \in BusTasks : HandlerCall(t)
    \/ \E t \in BusTasks : HandlerRespond(t)
    \/ \E t \in BusTasks : HandlerReturn(t, FALSE)
    \/ \E t \in BusTasks : Answered(t)
    \/ \E t \in BusTasks : Timeout(t)

SpecResponse == Init /\ [][NextResponse]_vars

\* Publishes whose handlers may store values in the event they are given
NextMutate ==
    \/ \E p \in BusPatterns, pr \in Priorities : On(p, FALSE, pr)
    \/ \E t \in BusTasks, e \in BusEvents : Emit(t, e)
    \/ \E t \in BusTasks : HandlerCall(t)
    \/ \E t \in BusTasks : HandlerMutate(t)

SpecMutate == Init /\ [][NextMutate]_vars

\* _match_pattern on any pattern and event type within the bounds
InitMatch ==
    /\ probe \in [pattern : SeqsUpTo(PatternChars, MaxPatternLen),
                  event   : SeqsUpTo(EventChars, MaxEventLen),
                  result  : {"none"}]
    /\ InitBus
    /\ InitLoader
    /\ relay = Relay(FALSE)

Match ==
    /\ probe.result = "none"
    /\ probe' = [probe EXCEPT !.result =
                    IF match_pattern(probe.event, probe.pattern)
                    THEN "match" ELSE "no match"]
    /\ UNCHANGED <<local_handlers, next_id, frames, calls, emits, requests, relay>>
    /\ UNCHANGED <<modules, insts, module_info, loading_lock, tasks, cur, mtime, ncalls>>

NextMatch == Match

SpecMatch == InitMatch /\ [][NextMatch]_vars

-----------------------------------------------------------------------------
(* Properties of the event bus *)

\* g is invoked before h: by priority, and by subscription for a tie
InvokedInOrder(g, h) ==
    \/ g.priority > h.priority
    \/ (g.priority = h.priority /\ g.handler_id < h.handler_id)

\* C1: within one publish the matching handlers are invoked in
\* non-increasing priority order, and handlers of equal priority in the
\* order in which they were subscribed, also when they were subscribed
\* under different patterns.  Stated on the step that invokes a callback:
\* it comes, in that order, after the callback invoked before it in the
\* same dispatch.
C1_DispatchOrder ==
    [][\A t \in BusTasks :
          (/\ frames[t] # <<>>
           /\ ~Head(frames[t]).in_handler
           /\ Head(frames[t]).called # <<>>
           /\ calls' # calls)
          => InvokedInOrder(Last(Head(frames[t]).called),
                            Head(frames[t]).to_call[Head(frames[t]).idx])]_vars

\* the handlers that are registered or that a dispatch in progress holds
KnownHandlers ==
    UNION {Range(local_handlers[i].handlers) : i \in 1..Len(local_handlers)}
    \cup UNION {UNION {Range(frames[t][k].to_call) : k \in 1..Len(frames[t])} :
                  t \in BusTasks}

\* C5: a handler subscribed with once=True is invoked at most once, however
\* the matching publishes are made (one after the other, or from a handler
\* during the dispatch).
C5_OnceAtMostOnce ==
    \A h \in KnownHandlers : h.once => calls[h.handler_id] <= 1

\* C6: _match_pattern agrees with anchored glob matching: a pattern matches
\* iff it equals the event type or matches the whole of it with "*" for any
\* run of characters, "?" for exactly one and any other character for itself.
C6_MatchIsGlob ==
    probe.result # "none"
    => ((probe.result = "match")
        <=> (probe.pattern = probe.event \/ GlobMatch(probe.pattern, probe.event)))

-----------------------------------------------------------------------------
(* Properties of the loader *)

AllIdle == \A t \in Tasks : tasks[t].pc = "idle"

LoadHooks   == {"load_pre_initialize", "load_initialize", "load_post_initialize"}
UnloadHooks == {"unload_pre_cleanup", "unload_cleanup", "unload_post_cleanup"}

\* instance i is in self.modules / is between the factory and registration
InTable(i)      == \E k \in 1..Len(modules) : modules[k].inst = i
Initializing(i) == \E t \in Tasks : tasks[t].pc \in LoadHooks /\ tasks[t].module_instance = i
InstancesOf(is, n) == {i \in 1..Len(is) : is[i].name = n}

C3_ReloadedReady ==
    (AllIdle /\ ReloadCalled)
    => /\ Cardinality({k \in 1..Len(modules) : modules[k].name = "A"}) = 1
       /\ insts[ModuleOf(modules, "A")].state = "ready"
       /\ Cardinality({i \in InstancesOf(insts, "A") : InTable(i)}) = 1

\* two reloads ran concurrently: one of them found "A" gone when its turn to
\* unload came, the other returned
C3_Witness ==
    /\ AllIdle
    /\ \E t \in Tasks : /\ tasks[t].op = "reload" /\ tasks[t].res = "raised"
                        /\ tasks[t].exc.kind = "KeyError"
    /\ \E t \in Tasks : tasks[t].op = "reload" /\ tasks[t].res = "ok"
    /\ IsLoaded(modules, "A")

\* C4: with "A" loaded and "B", whose instance declares the dependency on
\* "A", loaded, unload_module("A") without force raises the error naming
\* "B" and "A" stays loaded.  Stated on the step of the call that makes the
\* check.
C4_DeclaredDependencyBlocks ==
    [][\A t \in Tasks :
          (/\ tasks[t].op = "unload" /\ tasks[t].name = "A" /\ ~tasks[t].force
           /\ tasks[t].pc = "unload_body"
           /\ IsLoaded(modules, "A") /\ IsLoaded(modules, "B")
           /\ "A" \in insts[ModuleOf(modules, "B")].dependencies
           /\ tasks'[t] # tasks[t])
          => /\ tasks'[t].res = "raised"
             /\ tasks'[t].exc.kind = "ValueError"
             /\ "B" \in tasks'[t].exc.names
             /\ IsLoaded(modules', "A")]_vars

C8_OneLiveInstance ==
    \A n \in Names :
        Cardinality({i \in InstancesOf(insts, n) : InTable(i) \/ Initializing(i)}) <= 1

\* a task waits to load a name while another task initializes an instance
\* of that name
C8_Witness ==
    \E t \in Tasks : \E u \in Tasks \ {t} :
        /\ tasks[t].pc = "load_wait" /\ tasks[u].pc \in LoadHooks
        /\ tasks[t].name = tasks[u].name

\* C9: unload_module(name, force=False) on a loaded name with dependents
\* raises the error naming the dependents; the instance stays in
\* self.modules as it is, no cleanup hook runs and module.unloading is not
\* emitted.
C9_UnloadRefused ==
    [][\A t \in Tasks :
          (/\ tasks[t].pc = "unload_body" /\ ~tasks[t].force
           /\ IsLoaded(modules, tasks[t].name)
           /\ insts[ModuleOf(modules, tasks[t].name)].dependents # {}
           /\ tasks'[t] # tasks[t])
          => /\ tasks'[t].exc =
                  Error("ValueError", insts[ModuleOf(modules, tasks[t].name)].dependents)
             /\ tasks'[t].pc \in {"idle", "reload_except"}
             /\ tasks[t].op = "unload" => tasks'[t].res = "raised"
             /\ tasks'[t].ev = tasks[t].ev
             /\ UNCHANGED <<modules, insts>>]_vars

\* an unload call was refused and the name is still loaded
C9_Witness ==
    \E t \in Tasks :
        /\ tasks[t].op = "unload" /\ tasks[t].pc = "idle" /\ ~tasks[t].force
        /\ tasks[t].res = "raised" /\ tasks[t].exc.kind = "ValueError"
        /\ tasks[t].exc.names # {}
        /\ IsLoaded(modules, tasks[t].name)
        /\ tasks[t].ev = <<>>

\* the last step of an unload: post_cleanup() has returned
Unloads(t) == tasks[t].pc = "unload_post_cleanup" /\ modules' # modules

C11_FailedLoad ==
    [][\A t \in Tasks :
          (/\ tasks[t].op = "load" /\ tasks[t].pc = "load_raise"
           /\ tasks'[t] # tasks[t])
          => /\ tasks'[t].res = "raised"
             /\ module_info'[tasks[t].name].exists
             /\ module_info'[tasks[t].name].state = "error"
             /\ module_info'[tasks[t].name].error # NoError
             /\ "module.load_error" \in Range(tasks'[t].ev)
             /\ ~IsLoaded(modules', tasks[t].name)]_vars

\* C12: reload_module(name, force=False), when module.py exists and its
\* modification time is not newer than the record's last_modified, returns
\* at once: no hook runs, nothing is emitted, and self.modules, the
\* instances and the records (with reload_count) stay as they are.
C12_UnmodifiedReload ==
    [][\A t \in Tasks :
          LET info == module_info[tasks[t].name]
          IN  (/\ tasks[t].pc = "reload_check" /\ ~tasks[t].force
               /\ info.exists /\ file_exists(info.path)
               /\ info.last_modified # 0
               /\ mtime[info.path] <= info.last_modified
               /\ tasks'[t] # tasks[t])
              => /\ tasks'[t].pc \in {"idle", "batch_next"}
                 /\ tasks'[t].res = "ok"
                 /\ tasks'[t].ev = tasks[t].ev
                 /\ UNCHANGED <<modules, insts, module_info>>]_vars

\* a reload without force of a loaded name whose file was not written since
\* the load has returned, with no event emitted
C12_Witness ==
    \E t \in Tasks :
        LET info == module_info[tasks[t].name]
        IN  /\ tasks[t].op = "reload" /\ tasks[t].outer = "none" /\ ~tasks[t].force
            /\ tasks[t].pc = "idle" /\ tasks[t].res = "ok" /\ tasks[t].ev = <<>>
            /\ IsLoaded(modules, tasks[t].name)
            /\ info.exists /\ file_exists(info.path)
            /\ mtime[info.path] = info.last_modified

\* the reload of task t decides to go on: the record exists and the file is
\* missing, has no recorded time, is newer than recorded, or force is set
Reloads(t) ==
    LET info == module_info[tasks[t].name]
    IN  /\ tasks[t].pc = "reload_check" /\ info.exists
        /\ \/ tasks[t].force
           \/ ~file_exists(info.path)
           \/ info.last_modified = 0
           \/ mtime[info.path] > info.last_modified
        /\ tasks'[t] # tasks[t]

\* the steps of a reload whose extension code does not raise, from the
\* decision to the return: the counter captured is the record's plus one,
\* the load that follows the unload ends with the name loaded and READY and
\* the captured counter in the record, and the call returns
ReloadGoesThrough(t) ==
    LET n == tasks[t].name
    IN  /\ Reloads(t)
           => /\ tasks'[t].reload_count = module_info[n].reload_count + 1
              /\ IsLoaded(modules, n) => tasks'[t].pc = "unload_check"
        /\ (tasks[t].pc = "reload_after_load" /\ tasks'[t] # tasks[t])
           => /\ tasks'[t].pc = "reload_return"
              /\ IsLoaded(modules', n)
              /\ insts'[ModuleOf(modules', n)].state = "ready"
              /\ module_info'[n].state = "ready"
              /\ module_info'[n].reload_count = tasks[t].reload_count
              /\ Last(tasks'[t].ev) = "module.reloaded"
        /\ (tasks[t].pc = "reload_return" /\ tasks'[t] # tasks[t])
           => /\ tasks'[t].res = "ok"
              /\ UNCHANGED <<modules, insts, module_info>>

-----------------------------------------------------------------------------
(* Properties of request_response and of failing handlers *)

\* the handlers registered under pattern p
HandlersUnder(lh, p) ==
    IF BucketIndex(lh, p) = 0 THEN <<>> ELSE lh[BucketIndex(lh, p)].handlers

\* C14: request_response registers handle_response under a key of its own;
\* when no response has come it ends with the timeout error and the key is
\* deleted with its handler, every other key staying as it is, and between
\* the request and the timeout no key is added or deleted: the table is as
\* long after a timeout as before the request, however many time out.
C14_TimeoutUnregisters ==
    [][\A t \in BusTasks :
          LET r == requests[t]
          IN  /\ (r.pc # "sent" /\ requests'[t].pc = "sent")
                 => /\ BucketIndex(local_handlers, requests'[t].response_event) = 0
                    /\ Len(local_handlers') = Len(local_handlers) + 1
                    /\ Len(HandlersUnder(local_handlers', requests'[t].response_event)) = 1
              /\ (r.pc = "sent" /\ requests'[t].pc = "sent")
                 => Len(local_handlers') = Len(local_handlers)
              /\ (/\ r.pc = "sent" /\ requests'[t].pc # "sent"
                  /\ calls[r.handler_id] = 0)
                 => /\ requests'[t].pc = "timeout"
                    /\ BucketIndex(local_handlers', r.response_event) = 0
                    /\ Len(local_handlers') = Len(local_handlers) - 1
                    /\ \A p \in BusPatterns :
                          HandlersUnder(local_handlers', p) = HandlersUnder(local_handlers, p)
                    /\ \A k \in 1..Len(local_handlers') :
                          \A j \in 1..Len(local_handlers'[k].handlers) :
                             local_handlers'[k].handlers[j].handler_id # r.handler_id]_vars

\* two requests have timed out, each after a subscriber of the request was
\* called and did not respond, and the subscriber's key is the only one
C14_Witness ==
    \E t \in BusTasks :
        /\ requests[t].pc = "timeout" /\ emits = 2
        /\ calls[requests[t].handler_id] = 0
        /\ Len(local_handlers) = 1
        /\ \E h \in 1..MaxHandlers : calls[h] = 2

\* the handlers registered, of every bucket
Registered ==
    UNION {Range(local_handlers[k].handlers) : k \in 1..Len(local_handlers)}

\* C15: whichever callbacks raise, every registered handler whose pattern
\* matches has been invoked once for every publish that has returned, and
\* during a publish those already reached by the loop once more than the
\* others: no publish ends before its last matching handler was invoked.
C15_FailuresIsolated ==
    \A t \in BusTasks : \A h \in Registered :
        match_pattern(<<"a", ".", "b">>, h.pattern)
        => calls[h.handler_id] =
              IF frames[t] = <<>> \/ h \in Range(Head(frames[t]).called)
              THEN emits ELSE emits - 1

\* in a publish to three handlers the first two callbacks, subscribed under
\* different patterns, have both raised, and the loop is at the third
C15_Witness ==
    \E t \in BusTasks :
        /\ frames[t] # <<>>
        /\ LET f == Head(frames[t])
           IN  /\ f.raised = 2 /\ Len(f.called) = 2 /\ f.idx = 3
               /\ f.called[1].pattern # f.called[2].pattern
               /\ calls[f.called[2].handler_id] = emits

-----------------------------------------------------------------------------
(* Properties of the loader, continued *)

\* task t is inside the "async with self._loading_lock" block of
\* load_module or unload_module
InBody(t) ==
    tasks[t].pc \in {"load_body", "load_import", "load_exit", "load_raise",
                     "unload_body", "unload_exit"} \cup LoadHooks \cup UnloadHooks

\* C16: at most one task is inside the body of load_module or
\* unload_module, whatever the names, and it is the task that holds the
\* lock; a task that finds the lock held waits.
C16_OneTaskInBody ==
    /\ Cardinality({t \in Tasks : InBody(t)}) <= 1
    /\ \A t \in Tasks : InBody(t) => loading_lock.owner = t
    /\ \A t \in Tasks : tasks[t].pc \in {"load_wait", "unload_wait"}
                          => t \in Range(loading_lock.waiters)

\* a task is in a hook of a load or an unload while another task waits to
\* unload or load a different name
C16_Witness ==
    \E t \in Tasks : \E u \in Tasks \ {t} :
        /\ tasks[t].pc \in LoadHooks \cup UnloadHooks
        /\ tasks[u].pc \in {"load_wait", "unload_wait"}
        /\ tasks[u].name # tasks[t].name

\* C17: unload_module(name) of a name that is not in self.modules when the
\* call makes its check, before the lock or (after waiting for it) inside
\* the body, returns without raising, emits nothing and changes no record,
\* instance or table.
C17_UnloadNotLoaded ==
    [][\A t \in Tasks :
          (/\ tasks[t].op = "unload"
           /\ tasks[t].pc \in {"unload_check", "unload_body"}
           /\ ~IsLoaded(modules, tasks[t].name)
           /\ tasks'[t] # tasks[t])
          => /\ tasks'[t].pc = "idle" /\ tasks'[t].res = "ok"
             /\ tasks'[t].ev = tasks[t].ev
             /\ UNCHANGED <<modules, insts, module_info>>]_vars

\* the instances of n that unload_module has taken out of self.modules
Unloaded(is, mods, n) ==
    {j \in InstancesOf(is, n) :
        /\ is[j].state = "unloading"
        /\ ~\E k \in 1..Len(mods) : mods[k].inst = j}

\* task t completes the load of a name of which an instance was unloaded
\* before
LoadsAgain(t) ==
    /\ tasks[t].pc = "load_post_initialize" /\ tasks'[t].pc = "load_exit"
    /\ Unloaded(insts, modules, tasks[t].name) # {}

C19_Unloaded ==
    [][\A t \in Tasks :
          LET n == tasks[t].name
          IN  /\ Unloads(t)
                 => /\ ~IsLoaded(modules', n)
                    /\ module_info'[n].exists
                    /\ module_info'[n].state = "unloaded"
                    /\ module_info'[n].module = 0
                    /\ Last(tasks'[t].ev) = "module.unloaded"
                    /\ Last(tasks[t].ev) = "module.unloading"
              /\ (/\ tasks[t].op = "unload" /\ tasks[t].pc = "unload_exit"
                  /\ tasks'[t] # tasks[t])
                 => /\ tasks'[t].pc = "idle" /\ tasks'[t].res = "ok"
                    /\ ~IsLoaded(modules', n)
                    /\ module_info'[n].exists
                    /\ module_info'[n].state = "unloaded"
                    /\ module_info'[n].module = 0
                    /\ tasks'[t].ev = <<"module.unloading", "module.unloaded">>]_vars

\* an unload has returned for a name whose record still carries the error
\* of an earlier unload that failed
C19_Witness ==
    \E t \in Tasks :
        /\ tasks[t].op = "unload" /\ tasks[t].pc = "idle" /\ tasks[t].res = "ok"
        /\ tasks[t].ev = <<"module.unloading", "module.unloaded">>
        /\ ~IsLoaded(modules, tasks[t].name)
        /\ module_info[tasks[t].name].state = "unloaded"
        /\ module_info[tasks[t].name].module = 0
        /\ module_info[tasks[t].name].error.prefix = "Unload error: "

\* C20: a name that has a record has one in every later state, whatever
\* call or failure the step belongs to, and the names listed from
\* self.module_info (get_module_list, get_stats) keep every name they had.
C20_RecordsPersist ==
    [][/\ \A n \in Names : module_info[n].exists => module_info'[n].exists
       /\ Range(info_keys(module_info)) \subseteq Range(info_keys(module_info'))]_vars

\* unload_all_modules has returned with the name unloaded, and the name
\* still has its record and is listed
C20_Witness ==
    \E t \in Tasks : \E n \in Names :
        /\ tasks[t].outer = "unload_all" /\ tasks[t].pc = "idle"
        /\ tasks[t].results[n] = "success"
        /\ ~IsLoaded(modules, n)
        /\ module_info[n].exists /\ module_info[n].state = "unloaded"
        /\ n \in Range(info_keys(module_info))

-----------------------------------------------------------------------------
(* Properties of the calls that visit every name *)

\* a call of load_module, unload_module or reload_module made by the loop
\* of task record tk is in progress
InCall(tk) == tk.outer # "none" /\ tk.pc \notin {"idle", "batch_next", "batch_return"}

\* the names that have an entry in the results of tk's loop, counting the
\* entry the loop is about to store
Entries(tk) ==
    {n \in Names :
        (IF tk.pc = "batch_next" THEN batch_results(tk) ELSE tk.results)[n] # "none"}

\* the names tk's loop has an entry for, is calling for, or has still to
\* visit
Visited(tk) ==
    Entries(tk) \cup Range(tk.batch) \cup (IF InCall(tk) THEN {tk.name} ELSE {})

\* the number of times event is in ev
Count(ev, event) == Cardinality({k \in 1..Len(ev) : ev[k] = event})

\* C21: reload_all_modules starts with the names that have a record, each
\* once; every step of the loop keeps the names that have an entry, are
\* being reloaded or are still to visit, also when a reload raises; it
\* emits module.reload_all_complete once, when every one of these names has
\* its entry "success" or "error", with counts that add up to the number of
\* entries; and it returns without raising.
C21_ReloadAllComplete ==
    [][\A t \in Tasks :
          LET tk == tasks[t]
              tn == tasks'[t]
          IN  /\ (tk.pc = "idle" /\ tn.outer = "reload_all" /\ tn.pc = "batch_next")
                 => /\ Range(tn.batch) = {n \in Names : module_info[n].exists}
                    /\ Len(tn.batch) = Cardinality(Range(tn.batch))
                    /\ Entries(tn) = {}
              /\ (tk.outer = "reload_all" /\ tk.pc # "idle" /\ tn # tk)
                 => /\ tn.outer = "reload_all"
                    /\ Visited(tn) = Visited(tk)
                    /\ Entries(tk) \subseteq Entries(tn)
                    /\ Entries(tk) \cap Range(tk.batch) = {}
                    /\ tn.pc = "idle" => (tk.pc = "batch_return" /\ tn.res = "ok")
                    /\ (InCall(tk) /\ ~InCall(tn))
                       => tn.pc = "batch_next" /\ tn.res \in {"ok", "raised"}
                    /\ tn.pc = "batch_return"
                       => /\ tk.pc = "batch_next"
                          /\ Entries(tn) = Visited(tk)
                          /\ \A n \in Entries(tn) : tn.results[n] \in {"success", "error"}
                          /\ tn.complete.success_count + tn.complete.error_count
                                = Cardinality(Entries(tn))
                          /\ Count(tn.ev, "module.reload_all_complete") = 1
                          /\ Last(tn.ev) = "module.reload_all_complete"]_vars

\* reload_all_modules has returned with an error for "B", which has the
\* first record, and a success for "A", reloaded after it
C21_Witness ==
    \E t \in Tasks :
        /\ tasks[t].outer = "reload_all" /\ tasks[t].pc = "idle"
        /\ tasks[t].res = "ok"
        /\ info_keys(module_info) = <<"B", "A">>
        /\ tasks[t].results["B"] = "error" /\ tasks[t].results["A"] = "success"
        /\ tasks[t].complete = [success_count |-> 1, error_count |-> 1]
        /\ "module.reloaded" \in Range(tasks[t].ev)

\* every dependent registered on a loaded extension is itself loaded, entered
\* self.modules after it, and declares it as a dependency
DependentsFollow(mods, is) ==
    \A k \in 1..Len(mods) : \A d \in is[mods[k].inst].dependents :
        \E j \in (k + 1)..Len(mods) :
            /\ mods[j].name = d
            /\ mods[k].name \in is[mods[j].inst].dependencies

BetweenUnloadAndLoad(t) ==
    /\ tasks[t].op = "reload"
    /\ tasks[t].pc \in {"load_acquire", "load_wait"}
    /\ tasks[t].ev # <<>> /\ Last(tasks[t].ev) = "module.unloaded"

\* C23: while a reload_module call is between its unload_module and its
\* load_module, no other task is inside the body of load_module or
\* unload_module.
C23_ReloadIsOneOperation ==
    \A t \in Tasks :
        BetweenUnloadAndLoad(t) => \A u \in Tasks \ {t} : ~InBody(u)

\* C24: a step that changes a record of self.module_info is a step of the
\* task that holds self._loading_lock.
C24_RecordWritesUnderLock ==
    [][module_info' # module_info
       => \E t \in Tasks : loading_lock.owner = t /\ tasks'[t] # tasks[t]]_vars


(* The state a record shows, "none" while no record exists for the name. *)
RecordState(mi, n) == IF mi[n].exists THEN mi[n].state ELSE "none"

LifecycleEdges ==
    { <<"unloaded", "loading">>, <<"loading", "loaded">>,
      <<"loaded", "initializing">>, <<"initializing", "ready">>,
      <<"ready", "unloading">>, <<"unloading", "unloaded">>,
      <<"loading", "error">>, <<"loaded", "error">>,
      <<"initializing", "error">> }

(* C25: every change of the state of an existing record follows an edge of
   the lifecycle unloaded -> loading -> loaded -> initializing -> ready,
   ready -> unloading -> unloaded, and error is entered only from loading,
   loaded or initializing.  The creation of a record is not a change. *)
C25_LifecycleEdges ==
    [][\A n \in Names :
          \/ RecordState(module_info, n) = "none"
          \/ RecordState(module_info', n) = RecordState(module_info, n)
          \/ <<RecordState(module_info, n), RecordState(module_info', n)>>
                \in LifecycleEdges]_vars


(* A record in state error whose error was recorded by load_module (the
   except clause of unload_module prefixes its message) *)
LoadFailed(r) == r.exists /\ r.state = "error" /\ r.error.prefix # "Unload error: "

(* C26: a record that is in state error because a load failed, a failure in
   pre_initialize, initialize or post_initialize included, references no
   instance. *)
C26_ErrorReleasesInstance ==
    \A n \in Names : LoadFailed(module_info[n]) => module_info[n].module = 0


(* The last event the task's call has emitted *)
LastEmitted(tk) == IF tk.ev = <<>> THEN "none" ELSE tk.ev[Len(tk.ev)]

(* The instance stored under name n in the live table, 0 when there is none *)
Stored(mods, n) == IF IsLoaded(mods, n) THEN ModuleOf(mods, n) ELSE 0

(* C27: a load calls pre_initialize, initialize and post_initialize of the
   new instance once each and in that order: pre_initialize is entered only
   from the import, with module.loading the last event emitted, initialize
   only from pre_initialize and post_initialize only from initialize, and
   every step taken at a hook leaves it; the instance is stored in the live
   table and the record becomes ready only in the step in which
   post_initialize returns; module.loaded is emitted only in that step, with
   the instance stored. *)
C27_HooksInOrder ==
    [][/\ \A t \in Tasks :
            LET a == tasks[t]
                b == tasks'[t]
            IN  /\ (b.pc = "load_pre_initialize" /\ a.pc # b.pc)
                     => /\ a.pc = "load_import"
                        /\ LastEmitted(a) = "module.loading"
                        /\ b.module_instance = Len(insts')
                        /\ Len(insts') = Len(insts) + 1
                /\ (b.pc = "load_initialize" /\ a.pc # b.pc)
                     => a.pc = "load_pre_initialize"
                /\ (b.pc = "load_post_initialize" /\ a.pc # b.pc)
                     => a.pc = "load_initialize"
                /\ (a.pc \in LoadHooks /\ a # b)
                     => /\ b.pc # a.pc
                        /\ b.module_instance = a.module_instance
                /\ Count(b.ev, "module.loaded") > Count(a.ev, "module.loaded")
                     => /\ a.pc = "load_post_initialize"
                        /\ Count(b.ev, "module.loaded") = Count(a.ev, "module.loaded") + 1
                        /\ Stored(modules', a.name) = a.module_instance
                        /\ insts'[a.module_instance].state = "ready"
                        /\ module_info'[a.name].state = "ready"
       /\ \A n \in Names :
            /\ (Stored(modules', n) # Stored(modules, n) /\ Stored(modules', n) # 0)
                 => \E t \in Tasks :
                       /\ tasks[t].pc = "load_post_initialize" /\ tasks[t].name = n
                       /\ loading_lock.owner = t
                       /\ Stored(modules', n) = tasks[t].module_instance
            /\ (module_info'[n].state = "ready" /\ module_info[n].state # "ready")
                 => \E t \in Tasks :
                       /\ tasks[t].pc = "load_post_initialize" /\ tasks[t].name = n
                       /\ loading_lock.owner = t
                       /\ module_info[n].module = tasks[t].module_instance]_vars

(* a load has gone through its three hooks and emitted module.loaded for the
   instance it stored *)
C27_Witness ==
    \E t \in Tasks :
        /\ tasks[t].op = "load" /\ tasks[t].pc = "load_exit"
        /\ tasks[t].ev = <<"module.loading", "module.loaded">>
        /\ Stored(modules, tasks[t].name) = tasks[t].module_instance
        /\ module_info[tasks[t].name].state = "ready"


(* a call of cleanup() on instance i ends in this step *)
CleanupEnds(t) ==
    /\ tasks[t].op = "cleanup"
    /\ tasks[t].pc \in {"cleanup_loop", "cleanup_await"}
    /\ tasks'[t].pc = "idle"

(* C28: when cleanup() ends, it has returned and not raised, however a
   registered task ended (by itself, cancelled, or with an exception), every
   task that was registered is done, and the list of tasks is empty. *)
C28_CleanupNeverRaises ==
    [][\A t \in Tasks :
          CleanupEnds(t)
            => LET i == tasks[t].module_instance
               IN  /\ tasks'[t].res = "ok"
                   /\ insts'[i].cleanup_tasks = <<>>
                   /\ Range(insts[i].cleanup_tasks) \cap insts'[i].unfinished = {}]_vars


(* the call of emit() whose dispatch is the top frame of task t, pushed in
   this step, publishes to the response event of t's waiting request *)
ResponsePublished(t) ==
    /\ requests[t].pc = "sent"
    /\ emits' = emits + 1
    /\ frames'[t] # <<>>
    /\ Head(frames'[t]).data.payload = emits'
    /\ Head(frames'[t]).event = requests[t].response_event

(* C29: while a request waits, a payload published to its response event,
   also from inside the dispatch of the request, reaches handle_response
   unless a response was received before; a payload published later never
   replaces the one the call holds; and the call returns the payload it
   holds, a payload published to its response event. *)
C29_FirstResponseReturned ==
    [][\A t \in BusTasks :
          /\ (ResponsePublished(t) /\ requests[t].response_data = NoData)
               => \E i \in 1..Len(Head(frames'[t]).to_call) :
                     Head(frames'[t]).to_call[i].handler_id = requests[t].handler_id
          /\ (requests[t].pc = "sent" /\ requests'[t].pc = "sent"
                /\ requests[t].response_data # NoData)
               => requests'[t].response_data.payload <= requests[t].response_data.payload
          /\ (requests[t].pc = "sent" /\ requests'[t].pc = "answered")
               => /\ requests'[t].result = requests[t].response_data
                  /\ requests[t].response_data # NoData
                  /\ requests[t].response_data._event_type =
                        requests[t].response_event]_vars


(* C30: a dispatch that still has a callback to invoke holds the event as
   it was published: no handler invoked before has stored anything in it. *)
C30_EventAsPublished ==
    \A t \in BusTasks : \A k \in 1..Len(frames[t]) :
        ~frames[t][k].in_handler
          => frames[t][k].data =
                event_data(frames[t][k].event, frames[t][k].data.payload)


(* C36: whenever no task is inside the body of load_module or unload_module
   (the lock is free), a name is in self.modules exactly if its record
   exists and is in state ready, so get_stats' loaded_modules equals the
   number of records it counts under "ready". *)
C36_LoadedIffReady ==
    loading_lock.owner = 0
      => \A n \in Names :
            IsLoaded(modules, n)
              <=> (module_info[n].exists /\ module_info[n].state = "ready")


(* C37: the reload counter of a record never decreases, whatever call the
   step belongs to and whether the call succeeds or fails. *)
C37_ReloadCountMonotonic ==
    [][\A n \in Names :
          module_info[n].exists
            => /\ module_info'[n].exists
               /\ module_info'[n].reload_count >= module_info[n].reload_count]_vars


(* C40: when load_module raises after create_module has produced an
   instance, no background task registered with that instance is still
   running. *)
C40_FailedLoadStopsTasks ==
    [][\A t \in Tasks :
          (/\ tasks[t].op = "load" /\ tasks[t].pc = "load_raise"
           /\ tasks'[t].pc = "idle"
           /\ tasks[t].module_instance # 0)
            => insts'[tasks[t].module_instance].unfinished = {}]_vars


(* C35: every call of load_module or unload_module that a task has made
   eventually returns or raises, also when a hook or a handler of a
   lifecycle event publishes module.unload or module.reload while the
   operation is in progress. *)
C35_CallsComplete ==
    \A t \in GenTasks : (tasks[t].pc # "idle") ~> (tasks[t].pc = "idle")


-----------------------------------------------------------------------------
(* C31 *)

\* the names load_modules has to attempt: the subdirectories of the listing
\* that hold module.py and whose name has no reserved prefix
Eligible(listing) ==
    {listing[i].name : i \in {j \in 1..Len(listing) :
                                 listing[j].file /\ listing[j].name # "_C"}}

Ascending(names) ==
    \A i, j \in 1..Len(names) :
        i < j => \E a, b \in 1..Len(<<"A", "B">>) :
                    a < b /\ <<"A", "B">>[a] = names[i] /\ <<"A", "B">>[b] = names[j]

\* C31: load_modules never raises; the names it goes on to attempt are the
\* eligible subdirectories in ascending order of name, whatever they
\* declare as dependencies; every one of them is attempted next in that
\* order whatever the attempt before it came to
C31_LoadModulesAttemptsAll ==
    [][\A t \in GenTasks :
          /\ tasks[t].outer = "load_modules" /\ tasks[t].pc # "idle" /\ tasks'[t].pc = "idle" =>
                tasks'[t].res = "ok"
          /\ tasks[t].pc = "discover" /\ tasks'[t].pc = "batch_next" =>
                /\ Range(tasks'[t].batch) = Eligible(tasks[t].batch)
                /\ Len(tasks'[t].batch) = Cardinality(Eligible(tasks[t].batch))
                /\ Ascending(tasks'[t].batch)
          /\ tasks[t].outer = "load_modules" /\ tasks[t].pc = "batch_next"
                /\ tasks'[t] # tasks[t] =>
                IF tasks[t].batch # <<>>
                THEN /\ tasks'[t].op = "load" /\ tasks'[t].pc = "load_acquire"
                     /\ tasks'[t].name = Head(tasks[t].batch)
                     /\ tasks'[t].batch = Tail(tasks[t].batch)
                ELSE tasks'[t].pc = "idle"]_vars

\* C31, for a modules_dir that is a directory or does not exist
C31_DirectoryAttemptsAll ==
    [][\A t \in GenTasks :
          /\ tasks[t].outer = "load_modules" /\ tasks[t].pc # "idle" /\ tasks'[t].pc = "idle"
                /\ tasks[t].path # "file" => tasks'[t].res = "ok"
          /\ tasks[t].pc = "discover" /\ tasks'[t].pc = "batch_next" =>
                /\ Range(tasks'[t].batch) = Eligible(tasks[t].batch)
                /\ Len(tasks'[t].batch) = Cardinality(Eligible(tasks[t].batch))
                /\ Ascending(tasks'[t].batch)]_vars

\* the load of "A" has failed and load_modules is attempting "B"
C31_Witness ==
    /\ tasks[1].outer = "load_modules"
    /\ tasks[1].results["A"] = "error"
    /\ tasks[1].name = "B" /\ tasks[1].pc = "load_body"


-----------------------------------------------------------------------------
(* C39 *)

\* C39: once request_response has returned a response, local_handlers holds
\* no bucket for the request's private response event type
C39_NoBucketLeft ==
    \A t \in BusTasks :
        requests[t].pc = "answered" =>
            BucketIndex(local_handlers, requests[t].response_event) = 0

\* what remains in the model after an answered request: the bucket, empty
C39_EmptyBucketLeft ==
    \E t \in BusTasks :
        /\ requests[t].pc = "answered"
        /\ BucketIndex(local_handlers, requests[t].response_event) # 0
        /\ local_handlers[BucketIndex(local_handlers,
                                      requests[t].response_event)].handlers = <<>>


-----------------------------------------------------------------------------
(* C38 *)

\* the handlers local_handlers holds
RegisteredIds(lh) ==
    {h.handler_id : h \in UNION {Range(lh[i].handlers) : i \in 1..Len(lh)}}

\* off() removes nothing but what it is asked to: the handlers that leave
\* local_handlers in one step were under one key, and where the key is
\* still there it was one handler
OthersStay ==
    LET gone == RegisteredIds(local_handlers) \ RegisteredIds(local_handlers')
    IN  gone # {} =>
          \E i \in 1..Len(local_handlers) :
             /\ gone \subseteq RegisteredIds(<<local_handlers[i]>>)
             /\ BucketIndex(local_handlers', local_handlers[i].pattern) # 0 =>
                   Cardinality(gone) = 1

\* C38: a handler that off() has removed is never invoked again, not even
\* by a dispatch that was in progress when a handler called off(): every
\* callback that is invoked is registered at that moment; and off() leaves
\* the other handlers registered.  (No handler here is a once handler, so a
\* handler leaves local_handlers through off() only.)
C38_RemovedNeverInvoked ==
    [][/\ \A h \in 1..MaxHandlers :
             calls'[h] > calls[h] => h \in RegisteredIds(local_handlers)
       /\ OthersStay]_vars

\* the part of C38 that holds
C38_OthersStay == [][OthersStay]_vars

\* a dispatch goes on after one of its callbacks has unsubscribed a handler
\* that it has yet to invoke
C38_Witness ==
    \E t \in BusTasks :
        /\ frames[t] # <<>>
        /\ ~Head(frames[t]).in_handler
        /\ Head(frames[t]).to_call[Head(frames[t]).idx].handler_id
              \notin RegisteredIds(local_handlers)


-----------------------------------------------------------------------------
(* C32, C33, C34 *)

\* a step in which redis.publish is called: it puts a message on the relay
\* or its error is logged
Attempted ==
    Len(relay'.published) + relay'.failed > Len(relay.published) + relay.failed

\* the step returns from the _handle_event call f of task t with every
\* handler of handlers_to_call invoked, the last one in this step or before
Delivered(t, f) ==
    /\ frames'[t] = Tail(frames[t])
    /\ f.idx = Len(f.to_call)
    /\ IF f.in_handler THEN f.called = f.to_call
       ELSE /\ f.called = Front(f.to_call)
            /\ calls'[Last(f.to_call).handler_id] = calls[Last(f.to_call).handler_id] + 1

\* C32: emit calls redis.publish only once every matching local handler
\* has been invoked, and only for an emit without local_only on a running
\* bus that has a relay; when publish fails the emit returns as it does
\* when publish succeeds; no message on the relay is a local_only one.
C32_LocalBeforeRelay ==
    /\ [][Attempted =>
            /\ relay.is_running /\ relay.redis
            /\ \E t \in Dispatchers :
                 \/ /\ frames[t] # <<>>
                    /\ Head(frames[t]).caller = "emit" /\ ~Head(frames[t]).local_only
                    /\ Delivered(t, Head(frames[t]))
                 \/ /\ frames[t] = <<>> /\ frames'[t] = <<>>
                    /\ emits' = emits + 1 /\ calls' = calls]_vars
    /\ [](\A i \in 1..Len(relay.published) : ~relay.published[i].local_only)

\* a publish has failed and another has reached the relay, and the handler
\* was invoked for both
C32_Witness ==
    /\ relay.failed = 1 /\ Len(relay.published) = 1
    /\ frames[1] = <<>>
    /\ \E h \in 1..MaxHandlers : calls[h] = 2

\* C33: what the subscriber loop does puts nothing on the relay: not taking
\* a message, and not the dispatch of an event it has taken.  A message it
\* takes leaves the loop running; a malformed one invokes nothing, and an
\* event is handed to the handlers whose pattern matches it.
C33_IngestedNotForwarded ==
    [][/\ \/ Len(relay'.received) > Len(relay.received)
          \/ frames'[SubscriberTask] # frames[SubscriberTask]
          => relay'.published = relay.published /\ relay'.failed = relay.failed
       /\ Len(relay'.received) > Len(relay.received) =>
             /\ relay'.subscriber_task = "pending"
             /\ calls' = calls
             /\ Last(relay'.received) # "event" => frames' = frames
             /\ Last(relay'.received) = "event" =>
                   LET to_call == handlers_to_call(local_handlers, <<"a", ".", "b">>)
                   IN  IF to_call = <<>> THEN frames' = frames
                       ELSE /\ Len(frames'[SubscriberTask]) = 1
                            /\ Head(frames'[SubscriberTask]).to_call = to_call
                            /\ Head(frames'[SubscriberTask]).idx = 1]_vars

\* after a malformed message the loop has taken an event and has dispatched
\* it to a handler, with no emit() made on this bus
C33_Witness ==
    /\ relay.received = <<"malformed", "event">>
    /\ frames[SubscriberTask] = <<>>
    /\ \E h \in 1..MaxHandlers : calls[h] > 0 /\ emits = 0

\* the step is the call of op, or its return
CallOf(op)   == relay'.ncalls > relay.ncalls /\ relay'.op = op
ReturnOf(op) == relay'.op = op /\ relay'.pc = "idle"
                   /\ (relay.pc # "idle" \/ relay'.ncalls > relay.ncalls)

\* C34: start() returns without raising and with is_running set; where a
\* relay was configured and the bus was not running, it returns with the
\* subscriber task created or with redis and pubsub cleared; once redis is
\* cleared it stays so and nothing is published; start() on a running bus
\* and stop() on a stopped one change nothing; when stop() returns the
\* subscriber task, if there is one, is done.
C34_StartStop ==
    [][/\ ReturnOf("start") => relay'.res = "ok" /\ relay'.is_running
       /\ ReturnOf("start") /\ relay'.redis /\ relay.pc = "subscribe" =>
             relay'.subscriber_task = "pending"
       /\ ReturnOf("start") /\ relay.redis /\ (relay.pc = "subscribe" \/ ~relay.is_running)
             /\ relay'.subscriber_task # "pending" => ~relay'.redis /\ ~relay'.pubsub
       /\ ~relay.redis => ~relay'.redis /\ ~Attempted
       /\ \/ CallOf("start") /\ relay.is_running
          \/ CallOf("stop") /\ ~relay.is_running
          => /\ relay' = [relay EXCEPT !.ncalls = relay'.ncalls, !.op = relay'.op,
                                       !.res = "ok"]
             /\ UNCHANGED <<local_handlers, next_id, frames, calls, emits, requests>>
       /\ ReturnOf("stop") =>
             relay'.res = "ok" /\ relay'.subscriber_task \in {"none", "done"}]_vars

\* a bus that had a subscriber task was stopped, and its next start() has
\* failed to subscribe: it runs with no relay
C34_Witness ==
    /\ relay.op = "start" /\ relay.pc = "idle"
    /\ relay.is_running /\ ~relay.redis
    /\ relay.subscriber_task = "done"

=============================================================================
